---- MODULE Spec2Model ----
(***************************************************************************)
(* The todo backend's chat dispatcher (backend/app/api/chat.py), its       *)
(* command executors and the REST todo endpoints (backend/app/api/todos.py)*)
(* as a state machine.                                                     *)
(*                                                                         *)
(* Text is a sequence of one-character strings, so that lower-casing,      *)
(* stripping, substring tests, SQL LIKE and the executors' regular         *)
(* expressions are computed character by character as the code does.       *)
(* The alphabet of the modelled inputs has no newline, tab or backslash:   *)
(* "\s" is the space, "." is any character and "$" is the end of the text. *)
(***************************************************************************)
EXTENDS Integers, Sequences, FiniteSets, TLC

(***************************************************************************)
(* str.lower(), str.strip(), "in", and slicing                             *)
(***************************************************************************)
LowerChar(c) ==
    CASE c = "A" -> "a"
      [] c = "B" -> "b"
      [] c = "C" -> "c"
      [] c = "D" -> "d"
      [] c = "E" -> "e"
      [] c = "F" -> "f"
      [] c = "G" -> "g"
      [] c = "H" -> "h"
      [] c = "I" -> "i"
      [] c = "J" -> "j"
      [] c = "K" -> "k"
      [] c = "L" -> "l"
      [] c = "M" -> "m"
      [] c = "N" -> "n"
      [] c = "O" -> "o"
      [] c = "P" -> "p"
      [] c = "Q" -> "q"
      [] c = "R" -> "r"
      [] c = "S" -> "s"
      [] c = "T" -> "t"
      [] c = "U" -> "u"
      [] c = "V" -> "v"
      [] c = "W" -> "w"
      [] c = "X" -> "x"
      [] c = "Y" -> "y"
      [] c = "Z" -> "z"
      [] OTHER -> c

Lower(s) == [i \in 1..Len(s) |-> LowerChar(s[i])]

IsSpace(c) == c = " "

RECURSIVE LStrip(_)
LStrip(s) == IF s # <<>> /\ IsSpace(Head(s)) THEN LStrip(Tail(s)) ELSE s

RECURSIVE RStrip(_)
RStrip(s) ==
    IF s # <<>> /\ IsSpace(s[Len(s)]) THEN RStrip(SubSeq(s, 1, Len(s) - 1)) ELSE s

Strip(s) == RStrip(LStrip(s))

\* w occurs in s at position i
HasAt(s, i, w) ==
    /\ i >= 1
    /\ i + Len(w) - 1 <= Len(s)
    /\ \A j \in 1..Len(w) : s[i + j - 1] = w[j]

\* Python's "w in s"
Contains(s, w) == \E i \in 1..(Len(s) + 1) : HasAt(s, i, w)

\* any(word in s for word in words)
ContainsAny(s, words) == \E n \in 1..Len(words) : Contains(s, words[n])

\* s[:n + 1]
TakeOneMore(s, n) == SubSeq(s, 1, IF Len(s) < n + 1 THEN Len(s) ELSE n + 1)

\* s[:n]
Take(s, n) == SubSeq(s, 1, IF Len(s) < n THEN Len(s) ELSE n)

\* the length of the run of spaces of s that starts at position p: what a
\* greedy \s+ or \s* can take there
RECURSIVE WsRun(_, _)
WsRun(s, p) == IF p >= 1 /\ p <= Len(s) /\ IsSpace(s[p]) THEN 1 + WsRun(s, p + 1) ELSE 0

(***************************************************************************)
(* SQL LIKE as ilike() issues it: "%" matches any run of characters, "_"   *)
(* any one character, letters compare case-insensitively.                  *)
(***************************************************************************)
RECURSIVE LikeFrom(_, _, _, _)
LikeFrom(pat, i, s, j) ==
    IF i > Len(pat) THEN j > Len(s)
    ELSE IF pat[i] = "%" THEN \E k \in j..(Len(s) + 1) : LikeFrom(pat, i + 1, s, k)
    ELSE IF j > Len(s) THEN FALSE
    ELSE IF pat[i] = "_" \/ LowerChar(pat[i]) = LowerChar(s[j])
         THEN LikeFrom(pat, i + 1, s, j + 1)
    ELSE FALSE

\* column.ilike(f"%{task_title}%")
ILikeContains(title, task_title) ==
    LikeFrom(<<"%">> \o task_title \o <<"%">>, 1, title, 1)

(***************************************************************************)
(* Keyword lists of the intent classifier and of the executors' patterns   *)
(***************************************************************************)
CreateKeywords == <<<<"a","d","d">>, <<"c","r","e","a","t","e">>, <<"m","a","k","e">>, <<"n","e","w">>, <<"b","u","y">>, <<"g","e","t">>>>
UpdateKeywords == <<<<"u","p","d","a","t","e">>, <<"c","h","a","n","g","e">>, <<"m","o","d","i","f","y">>, <<"e","d","i","t">>>>
CompleteKeywords == <<<<"c","o","m","p","l","e","t","e">>, <<"d","o","n","e">>, <<"f","i","n","i","s","h">>, <<"m","a","r","k">>>>
DeleteKeywords == <<<<"d","e","l","e","t","e">>, <<"r","e","m","o","v","e">>, <<"c","a","n","c","e","l">>>>
ListKeywords == <<<<"s","h","o","w">>, <<"l","i","s","t">>, <<"d","i","s","p","l","a","y">>, <<"v","i","e","w">>, <<"s","e","e">>, <<"m","y">>>>
GeneralCompleteWords == <<<<"c","o","m","p","l","e","t","e">>, <<"d","o","n","e">>, <<"f","i","n","i","s","h">>>>
DoneWords == <<<<"d","o","n","e">>, <<"c","o","m","p","l","e","t","e","d">>, <<"f","i","n","i","s","h","e","d">>>>
WordThe == <<"t","h","e">>
WordTo == <<"t","o">>
WordAs == <<"a","s">>

(***************************************************************************)
(* The executors' regular expressions, matched as re.search matches them:  *)
(* the leftmost start position, then the first way through the pattern in  *)
(* backtracking order (greedy quantifiers longest first, lazy ones         *)
(* shortest first). A match is {} (None) or {group(1)}.                    *)
(***************************************************************************)
SetMin(S) == CHOOSE n \in S : \A m \in S : n <= m

\* the position after the first of the alternatives that occurs at position i
\* of s, 0 when none does
AltEnd(s, i, alternatives) ==
    LET hits == {n \in 1..Len(alternatives) : HasAt(s, i, alternatives[n])}
    IN IF hits = {} THEN 0 ELSE i + Len(alternatives[SetMin(hits)])

\* ranks are the choices taken at the pattern's choice points, 0 for the
\* choice the matcher tries first
RECURSIVE LexLeq(_, _)
LexLeq(a, b) ==
    IF a = <<>> THEN TRUE
    ELSE IF Head(a) # Head(b) THEN Head(a) < Head(b)
    ELSE LexLeq(Tail(a), Tail(b))

FirstTried(cands) == CHOOSE c \in cands : \A d \in cands : LexLeq(c.rank, d.rank)

\* re.search: the match at the leftmost position where MatchAt finds one
SearchFirst(s, MatchAt(_, _)) ==
    LET hits == {i \in 1..Len(s) : MatchAt(s, i) # {}}
    IN IF hits = {} THEN {} ELSE MatchAt(s, SetMin(hits))

\* \s+(?:<word>\s+)? from position p: the positions q where the rest of the
\* pattern may start
AfterOptionalWord(s, p, word) ==
    LET W == WsRun(s, p)
    IN UNION { LET r == p + k
                   J == WsRun(s, r + Len(word))
               IN (IF HasAt(s, r, word)
                   THEN {[q |-> r + Len(word) + j, rank |-> <<W - k, 0, J - j>>] : j \in 1..J}
                   ELSE {})
                  \cup {[q |-> r, rank |-> <<W - k, 1, 0>>]}
             : k \in 1..W }

\* (?:\s+to\s+.+) at position t
ToClauseAt(s, t) ==
    LET a == WsRun(s, t)
    IN /\ a >= 1
       /\ HasAt(s, t + a, WordTo)
       /\ WsRun(s, t + a + 2) >= 1
       /\ t + a + 3 <= Len(s)

\* (?:\s+as\s+(?:done|completed|finished)) at position t
AsDoneClauseAt(s, t) ==
    LET a == WsRun(s, t)
        b == WsRun(s, t + a + 2)
    IN /\ a >= 1
       /\ HasAt(s, t + a, WordAs)
       /\ b >= 1
       /\ AltEnd(s, t + a + 2 + b, DoneWords) # 0

\* (.+?) from q followed by (?:<clause>|$): the shortest group
LazyGroup(s, q, ClauseAt(_, _)) ==
    LET ok(n) == q + n = Len(s) + 1 \/ ClauseAt(s, q + n)
        n == SetMin({m \in 1..(Len(s) - q + 1) : ok(m)})
    IN SubSeq(s, q, q + n - 1)

\* (?:update|change|modify|edit)\s+(?:the\s+)?(.+?)(?:\s+to\s+.+|$)
UpdateTargetAt(s, i) ==
    LET p == AltEnd(s, i, UpdateKeywords)
        cands == IF p = 0 THEN {}
                 ELSE {c \in AfterOptionalWord(s, p, WordThe) : c.q <= Len(s)}
    IN IF cands = {} THEN {} ELSE {LazyGroup(s, FirstTried(cands).q, ToClauseAt)}

UpdateTargetMatch(s) == SearchFirst(s, UpdateTargetAt)

\* (?:update|change|modify|edit)\s+.+?\s+to\s+(.+)
NewTitleAt(s, i) ==
    LET p == AltEnd(s, i, UpdateKeywords)
        W == WsRun(s, p)
        ToStart(k, n) == p + k + n + WsRun(s, p + k + n)
        B(k, n) == WsRun(s, ToStart(k, n) + 2)
        \* the greedy \s+ after "to" gives one space back when nothing follows it
        b(k, n) == IF ToStart(k, n) + 2 + B(k, n) <= Len(s) THEN B(k, n) ELSE B(k, n) - 1
        cands == IF p = 0 THEN {}
                 ELSE {c \in {[q |-> ToStart(k, n) + 2 + b(k, n),
                               ok |-> /\ WsRun(s, p + k + n) >= 1
                                      /\ HasAt(s, ToStart(k, n), WordTo)
                                      /\ b(k, n) >= 1,
                               rank |-> <<W - k, n>>] : k \in 1..W, n \in 1..Len(s)} : c.ok}
    IN IF cands = {} THEN {}
       ELSE {SubSeq(s, FirstTried(cands).q, Len(s))}

NewTitleMatch(s) == SearchFirst(s, NewTitleAt)

\* (?:delete|remove|cancel)\s+(?:the\s+)?(.+)
DeleteTargetAt(s, i) ==
    LET p == AltEnd(s, i, DeleteKeywords)
        cands == IF p = 0 THEN {}
                 ELSE {c \in AfterOptionalWord(s, p, WordThe) : c.q <= Len(s)}
    IN IF cands = {} THEN {} ELSE {SubSeq(s, FirstTried(cands).q, Len(s))}

DeleteTargetMatch(s) == SearchFirst(s, DeleteTargetAt)

\* (?:complete|done|finish|mark)\s+(?:as\s+)?(?:done|completed|finished)?\s*
\* (.+?)(?:\s+as\s+(?:done|completed|finished)|$)
CompleteTargetAt(s, i) ==
    LET p == AltEnd(s, i, CompleteKeywords)
        AfterDoneWord(r, rank) ==
            LET e == AltEnd(s, r, DoneWords)
                tails == (IF e # 0 THEN {[r |-> e, rank |-> rank \o <<0>>]} ELSE {})
                         \cup {[r |-> r, rank |-> rank \o <<1>>]}
            IN UNION { {[q |-> t.r + n, rank |-> t.rank \o <<WsRun(s, t.r) - n>>]
                        : n \in 0..WsRun(s, t.r)} : t \in tails }
        cands == IF p = 0 THEN {}
                 ELSE {c \in UNION { AfterDoneWord(a.q, a.rank)
                                     : a \in AfterOptionalWord(s, p, WordAs) }
                       : c.q <= Len(s)}
    IN IF cands = {} THEN {} ELSE {LazyGroup(s, FirstTried(cands).q, AsDoneClauseAt)}

CompleteTargetMatch(s) == SearchFirst(s, CompleteTargetAt)

(***************************************************************************)
(* State                                                                   *)
(***************************************************************************)
VARIABLES
    users,          \* the User table: id -> [username, email, hashed_password]
    todos,          \* the Todo table: id -> the fields of the row
    nextTodoId,     \* the next id the store assigns to a Todo
    now,            \* datetime.utcnow() as a logical clock
    chat_sessions,  \* the in-memory registry: sessionId -> [userId, conversationId, isActive]
    conversations,  \* the Conversation table: id -> [user_id]
    messages,       \* the Message table in created_at order
    requests,       \* the requests in progress on the worker threads, by thread
    last            \* the last request and what it returned

vars == <<users, requests, todos, nextTodoId, now, chat_sessions, conversations, messages, last>>

\* the registered users (User.id); each authenticates as itself
Users == {1, 2}

(***************************************************************************)
(* Reply texts: the template of the f-string, the text interpolated into   *)
(* it and the Todo rows whose titles it shows.                             *)
(***************************************************************************)
Text(template, phrase, rows, count) ==
    [text |-> template, phrase |-> phrase, rows |-> rows, count |-> count]

Row(store, id) ==
    [id |-> id, title |-> store[id].title, description |-> store[id].description,
     completed |-> store[id].completed,
     user_id |-> store[id].user_id]

Result(store, response, intent, processed) ==
    [store |-> store, response |-> response, intent |-> intent, processed |-> processed]

\* str(e) of the exception a failing store operation raises
StoreError == <<"O","p","e","r","a","t","i","o","n","a","l","E","r","r","o","r">>

\* str(e) of re.search(pattern, message.lower)
TypeErrorText == <<"e","x","p","e","c","t","e","d"," ","s","t","r","i","n","g">>

(***************************************************************************)
(* Queries on the Todo table                                               *)
(***************************************************************************)
\* ids in ascending order: the order in which the store returns the rows of
\* a select without ORDER BY
RECURSIVE Ascending(_)
Ascending(ids) ==
    IF ids = {} THEN <<>> ELSE <<SetMin(ids)>> \o Ascending(ids \ {SetMin(ids)})

\* CreatedDesc putting the oldest row first
RECURSIVE CreatedAsc(_, _)
CreatedAsc(store, ids) ==
    IF ids = {} THEN <<>>
    ELSE LET oldest == CHOOSE i \in ids :
                           \A j \in ids : store[i].created_at <= store[j].created_at
         IN <<oldest>> \o CreatedAsc(store, ids \ {oldest})

\* .order_by(Todo.created_at.desc())
RECURSIVE CreatedDesc(_, _)
CreatedDesc(store, ids) ==
    IF ids = {} THEN <<>>
    ELSE LET newest == CHOOSE i \in ids :
                           \A j \in ids : store[j].created_at <= store[i].created_at
         IN <<newest>> \o CreatedDesc(store, ids \ {newest})

\* OwnedBy without the user_id filter
AnyOwner(store, user_id) == DOMAIN store

\* select(Todo).where(Todo.user_id == user_id)
OwnedBy(store, user_id) == {id \in DOMAIN store : store[id].user_id = user_id}

\* select(Todo).where(Todo.user_id == user_id).all()
AllTodos(store, user_id) == Ascending(OwnedBy(store, user_id))

\* select(Todo).where(Todo.user_id == user_id,
\*     Todo.title.ilike(f"%{task_title}%")).order_by(Todo.created_at.desc())
TitleILike(store, user_id, task_title) ==
    CreatedDesc(store, {id \in OwnedBy(store, user_id) :
                            ILikeContains(store[id].title, task_title)})

\* ... Todo.completed == False ...
Incomplete(store, ids) == {id \in ids : ~store[id].completed}

\* [t for t in all_todos if task_title.lower() in t.title.lower()]
PartialMatches(store, all_todos, task_title) ==
    SelectSeq(all_todos, LAMBDA id : Contains(Lower(store[id].title), Lower(task_title)))

Rows(store, ids) == [n \in 1..Len(ids) |-> Row(store, ids[n])]

\* the number of titles a reply shows at most
MaxShown == 5

\* the faults of a store operation inside a command
CommandFaults == {"select", "commit", "refresh"}

(***************************************************************************)
(* The texts of the modelled requests                                      *)
(***************************************************************************)
TitleBuyMilk == <<"B","u","y"," ","M","i","l","k">>
TitleTea == <<"t","e","a">>
Titles == {TitleBuyMilk, TitleTea}

MsgAddMilk == <<"a","d","d"," ","m","i","l","k">>
MsgChangeMilkToBread == <<"c","h","a","n","g","e"," ","m","i","l","k"," ","t","o"," ","B","r","e","a","d">>
MsgUpdateMilk == <<"u","p","d","a","t","e"," ","m","i","l","k">>
MsgFinishMilk == <<"f","i","n","i","s","h"," ","m","i","l","k">>
MsgDone == <<"d","o","n","e">>
MsgDeleteMilk == <<"d","e","l","e","t","e"," ","m","i","l","k">>
MsgDeleteAny == <<"d","e","l","e","t","e"," ","%">>
MsgShow == <<"s","h","o","w">>
MsgHello == <<"h","e","l","l","o">>
\* "change milk to" followed by two spaces: the new title strips to nothing
MsgChangeMilkToBlank == <<"c","h","a","n","g","e"," ","m","i","l","k"," ","t","o"," "," ">>

Commands ==
    {MsgAddMilk, MsgChangeMilkToBread, MsgUpdateMilk, MsgFinishMilk, MsgDone,
     MsgDeleteMilk, MsgDeleteAny, MsgShow, MsgHello}

MsgMilk == <<"m","i","l","k">>

\* one word, or two words with a space between them, of the keywords of
\* every category, the words of the patterns and a word that is none of them
ParseWords ==
    {CreateKeywords[n] : n \in DOMAIN CreateKeywords}
    \cup {UpdateKeywords[n] : n \in DOMAIN UpdateKeywords}
    \cup {CompleteKeywords[n] : n \in DOMAIN CompleteKeywords}
    \cup {DeleteKeywords[n] : n \in DOMAIN DeleteKeywords}
    \cup {ListKeywords[n] : n \in DOMAIN ListKeywords}
    \cup {WordAs, WordTo, WordThe, MsgMilk}

\* the second words: the keywords the classifier's contract names, one keyword
\* of each other category and the word that is no keyword
SecondWords ==
    {CreateKeywords[1], CreateKeywords[2], CreateKeywords[5], CreateKeywords[6],
     UpdateKeywords[1], CompleteKeywords[2], DeleteKeywords[1], ListKeywords[1], MsgMilk}

ClassifyInputs == ParseWords \cup {v \o <<" ">> \o w : v \in ParseWords, w \in SecondWords}

\* for the complete executor: every word alone, and its verbs followed by a
\* word of its pattern or by a task name
CompleteInputs ==
    ParseWords
    \cup {CompleteKeywords[n] \o <<" ">> \o w :
            n \in DOMAIN CompleteKeywords, w \in {WordAs, CompleteKeywords[2], MsgMilk}}

ParseInputs == ClassifyInputs \cup CompleteInputs

(***************************************************************************)
(* What the classifier and the executors derive from the message text     *)
(* alone: the keyword tests of process_natural_language_command in their   *)
(* order, and the re.search calls of the executors on message.lower().     *)
(***************************************************************************)
\* Category testing the update keywords before the create keywords
CategoryUpdateFirst(message_lower) ==
    IF ContainsAny(message_lower, UpdateKeywords) THEN "update"
    ELSE IF ContainsAny(message_lower, CreateKeywords) THEN "create"
    ELSE IF ContainsAny(message_lower, CompleteKeywords) THEN "complete"
    ELSE IF ContainsAny(message_lower, DeleteKeywords) THEN "delete"
    ELSE IF ContainsAny(message_lower, ListKeywords) THEN "list"
    ELSE "unknown"

Category(message_lower) ==
    IF ContainsAny(message_lower, CreateKeywords) THEN "create"
    ELSE IF ContainsAny(message_lower, UpdateKeywords) THEN "update"
    ELSE IF ContainsAny(message_lower, CompleteKeywords) THEN "complete"
    ELSE IF ContainsAny(message_lower, DeleteKeywords) THEN "delete"
    ELSE IF ContainsAny(message_lower, ListKeywords) THEN "list"
    ELSE "unknown"

ScanText(message) ==
    [category |-> Category(Lower(message)),
     update_target |-> UpdateTargetMatch(Lower(message)),
     new_title |-> NewTitleMatch(Lower(message)),
     complete_target |-> CompleteTargetMatch(Lower(message)),
     general_complete |-> ContainsAny(Lower(message), GeneralCompleteWords),
     delete_target |-> DeleteTargetMatch(Lower(message))]

\* ScanText of the modelled requests, computed once
MsgDelete100 == <<"d","e","l","e","t","e"," ","1","0","0","%">>
MsgUpdate100 == <<"u","p","d","a","t","e"," ","1","0","0","%">>
MsgFinish100 == <<"f","i","n","i","s","h"," ","1","0","0","%">>

Scanned ==
    [m \in Commands \cup ParseInputs \cup {MsgChangeMilkToBlank, MsgDelete100, MsgUpdate100, MsgFinish100}
        |-> ScanText(m)]

Scan(message) == Scanned[message]

(***************************************************************************)
(* The command executors. Each is the function                             *)
(*   (message, user_id, Todo table, fault) -> (Todo table, command result) *)
(* where fault names the store operation that raises during the command,   *)
(* if it is reached ("none": no store operation raises).                   *)
(***************************************************************************)
TheGroup(match) == CHOOSE g \in match : TRUE

\* re.search(..., message.lower) is given the bound method lower and not its
\* result: it raises TypeError before the store is touched, and the except
\* clause turns that into the reply
process_create_todo_command(message, user_id, store, fault) ==
    Result(store,
           Text("Sorry, I couldn't create that task: {e}", TypeErrorText, <<>>, 0),
           "create_todo", FALSE)

\* the update executor setting the completed flag instead of flipping it
update_scanned_completing(match, new_title_match, user_id, store, fault) ==
    LET task_title == Strip(TheGroup(match))
        found == TitleILike(store, user_id, task_title)
        all_todos == AllTodos(store, user_id)
        matching_todos == PartialMatches(store, all_todos, task_title)
        todo == IF found # <<>> THEN found[1] ELSE matching_todos[1]
        updated == IF new_title_match # {}
                   THEN [store EXCEPT ![todo].title = Strip(TheGroup(new_title_match))]
                   ELSE [store EXCEPT ![todo].completed = TRUE]
        failed(s) == Result(s, Text("Sorry, I couldn't update that task: {e}",
                                    StoreError, <<>>, 0), "update_todo", FALSE)
    IN IF match = {}
       THEN Result(store,
                   Text("I couldn't identify which task to update. Please specify the task by title.",
                        <<>>, <<>>, 0), "update_todo", FALSE)
       ELSE IF fault = "select" THEN failed(store)
       ELSE IF found = <<>> /\ all_todos = <<>>
       THEN Result(store, Text("You don't have any tasks to update.", <<>>, <<>>, 0),
                   "update_todo", FALSE)
       ELSE IF found = <<>> /\ matching_todos = <<>>
       THEN Result(store,
                   Text("I couldn't find a task containing '{task_title}'. Here are your tasks: {titles}",
                        task_title, Rows(store, Take(all_todos, MaxShown)), 0),
                   "update_todo", FALSE)
       ELSE IF fault = "commit" THEN failed(store)
       ELSE IF fault = "refresh" THEN failed(updated)
       ELSE Result(updated,
                   Text(IF updated[todo].completed
                        THEN "I've updated the task '{todo.title}' (completed)."
                        ELSE "I've updated the task '{todo.title}' (marked incomplete).",
                        <<>>, Rows(updated, <<todo>>), 0),
                   "update_todo", TRUE)

\* process_update_todo_command from the results of its two re.search calls
update_scanned(match, new_title_match, user_id, store, fault) ==
    LET task_title == Strip(TheGroup(match))
        found == TitleILike(store, user_id, task_title)
        all_todos == AllTodos(store, user_id)
        matching_todos == PartialMatches(store, all_todos, task_title)
        todo == IF found # <<>> THEN found[1] ELSE matching_todos[1]
        updated == IF new_title_match # {}
                   THEN [store EXCEPT ![todo].title = Strip(TheGroup(new_title_match))]
                   ELSE [store EXCEPT ![todo].completed = ~store[todo].completed]
        failed(s) == Result(s, Text("Sorry, I couldn't update that task: {e}",
                                    StoreError, <<>>, 0), "update_todo", FALSE)
    IN IF match = {}
       THEN Result(store,
                   Text("I couldn't identify which task to update. Please specify the task by title.",
                        <<>>, <<>>, 0), "update_todo", FALSE)
       ELSE IF fault = "select" THEN failed(store)
       ELSE IF found = <<>> /\ all_todos = <<>>
       THEN Result(store, Text("You don't have any tasks to update.", <<>>, <<>>, 0),
                   "update_todo", FALSE)
       ELSE IF found = <<>> /\ matching_todos = <<>>
       THEN Result(store,
                   Text("I couldn't find a task containing '{task_title}'. Here are your tasks: {titles}",
                        task_title, Rows(store, Take(all_todos, MaxShown)), 0),
                   "update_todo", FALSE)
       ELSE IF fault = "commit" THEN failed(store)
       ELSE IF fault = "refresh" THEN failed(updated)
       ELSE Result(updated,
                   Text(IF updated[todo].completed
                        THEN "I've updated the task '{todo.title}' (completed)."
                        ELSE "I've updated the task '{todo.title}' (marked incomplete).",
                        <<>>, Rows(updated, <<todo>>), 0),
                   "update_todo", TRUE)

process_update_todo_command(message, user_id, store, fault) ==
    update_scanned(Scan(message).update_target, Scan(message).new_title, user_id, store, fault)

\* process_complete_todo_command from the result of its re.search call and of
\* its test for a general "complete" command
complete_scanned(match, general_complete, user_id, store, fault) ==
    LET failed(s) == Result(s, Text("Sorry, I couldn't complete that task: {e}",
                                    StoreError, <<>>, 0), "complete_todo", FALSE)
        completed(todo) == [store EXCEPT ![todo].completed = TRUE]
        mark(todo) ==
            IF fault = "commit" THEN failed(store)
            ELSE IF fault = "refresh" THEN failed(completed(todo))
            ELSE Result(completed(todo),
                        Text("I've marked the task '{todo.title}' as completed.",
                             <<>>, Rows(completed(todo), <<todo>>), 0),
                        "complete_todo", TRUE)
        \* no task named: the most recent incomplete task
        recent == CreatedDesc(store, Incomplete(store, OwnedBy(store, user_id)))
        \* a task named
        task_title == Lower(Strip(TheGroup(match)))
        found == CreatedDesc(store, Incomplete(store,
                     {id \in OwnedBy(store, user_id) :
                          ILikeContains(store[id].title, task_title)}))
        all_todos == AllTodos(store, user_id)
        matching_todos == SelectSeq(all_todos, LAMBDA id :
                              Contains(Lower(store[id].title), task_title)
                              /\ ~store[id].completed)
        incomplete_todos == SelectSeq(all_todos, LAMBDA id : ~store[id].completed)
    IN IF match = {}
       THEN IF general_complete
            THEN IF fault = "select" THEN failed(store)
                 ELSE IF recent # <<>> THEN mark(recent[1])
                 ELSE Result(store,
                             Text("You don't have any incomplete tasks to complete.",
                                  <<>>, <<>>, 0), "complete_todo", FALSE)
            ELSE Result(store,
                        Text("I couldn't identify which task to complete. Please specify the task by title.",
                             <<>>, <<>>, 0), "complete_todo", FALSE)
       ELSE IF fault = "select" THEN failed(store)
       ELSE IF found # <<>> THEN mark(found[1])
       ELSE IF all_todos = <<>>
       THEN Result(store, Text("You don't have any tasks to complete.", <<>>, <<>>, 0),
                   "complete_todo", FALSE)
       ELSE IF matching_todos # <<>> THEN mark(matching_todos[1])
       ELSE IF incomplete_todos # <<>>
       THEN Result(store,
                   Text("I couldn't find an incomplete task containing '{task_title}'. Here are your incomplete tasks: {titles}",
                        Strip(TheGroup(match)),
                        Rows(store, Take(incomplete_todos, MaxShown)), 0),
                   "complete_todo", FALSE)
       ELSE Result(store, Text("All your tasks are already completed.", <<>>, <<>>, 0),
                   "complete_todo", FALSE)

process_complete_todo_command(message, user_id, store, fault) ==
    complete_scanned(Scan(message).complete_target, Scan(message).general_complete,
                     user_id, store, fault)

\* process_delete_todo_command from the result of its re.search call
\* the delete executor reporting a deletion as not processed
delete_scanned_unreported(match, user_id, store, fault) ==
    LET task_title == Strip(TheGroup(match))
        found == TitleILike(store, user_id, task_title)
        all_todos == AllTodos(store, user_id)
        matching_todos == PartialMatches(store, all_todos, task_title)
        todo == IF found # <<>> THEN found[1] ELSE matching_todos[1]
        deleted == [id \in DOMAIN store \ {todo} |-> store[id]]
        failed(s) == Result(s, Text("Sorry, I couldn't delete that task: {e}",
                                    StoreError, <<>>, 0), "delete_todo", FALSE)
    IN IF match = {}
       THEN Result(store,
                   Text("I couldn't identify which task to delete. Please specify the task by title.",
                        <<>>, <<>>, 0), "delete_todo", FALSE)
       ELSE IF fault = "select" THEN failed(store)
       ELSE IF found = <<>> /\ all_todos = <<>>
       THEN Result(store, Text("You don't have any tasks to delete.", <<>>, <<>>, 0),
                   "delete_todo", FALSE)
       ELSE IF found = <<>> /\ matching_todos = <<>>
       THEN Result(store,
                   Text("I couldn't find a task containing '{task_title}'. Here are your tasks: {titles}",
                        task_title, Rows(store, Take(all_todos, MaxShown)), 0),
                   "delete_todo", FALSE)
       ELSE IF fault = "commit" THEN failed(store)
       ELSE Result(deleted,
                   Text("I've deleted the task '{todo.title}'.", <<>>,
                        Rows(store, <<todo>>), 0),
                   "delete_todo", FALSE)

delete_scanned(match, user_id, store, fault) ==
    LET task_title == Strip(TheGroup(match))
        found == TitleILike(store, user_id, task_title)
        all_todos == AllTodos(store, user_id)
        matching_todos == PartialMatches(store, all_todos, task_title)
        todo == IF found # <<>> THEN found[1] ELSE matching_todos[1]
        deleted == [id \in DOMAIN store \ {todo} |-> store[id]]
        failed(s) == Result(s, Text("Sorry, I couldn't delete that task: {e}",
                                    StoreError, <<>>, 0), "delete_todo", FALSE)
    IN IF match = {}
       THEN Result(store,
                   Text("I couldn't identify which task to delete. Please specify the task by title.",
                        <<>>, <<>>, 0), "delete_todo", FALSE)
       ELSE IF fault = "select" THEN failed(store)
       ELSE IF found = <<>> /\ all_todos = <<>>
       THEN Result(store, Text("You don't have any tasks to delete.", <<>>, <<>>, 0),
                   "delete_todo", FALSE)
       ELSE IF found = <<>> /\ matching_todos = <<>>
       THEN Result(store,
                   Text("I couldn't find a task containing '{task_title}'. Here are your tasks: {titles}",
                        task_title, Rows(store, Take(all_todos, MaxShown)), 0),
                   "delete_todo", FALSE)
       ELSE IF fault = "commit" THEN failed(store)
       ELSE Result(deleted,
                   Text("I've deleted the task '{todo.title}'.", <<>>,
                        Rows(store, <<todo>>), 0),
                   "delete_todo", TRUE)

process_delete_todo_command(message, user_id, store, fault) ==
    delete_scanned(Scan(message).delete_target, user_id, store, fault)

\* the list executor with the failure reply marked as processed
process_list_todos_command_always_processed(message, user_id, store, fault) ==
    LET listed == CreatedDesc(store, OwnedBy(store, user_id))
        additional_count == Len(listed) - MaxShown
    IN IF fault = "select"
       THEN Result(store, Text("Sorry, I couldn't retrieve your tasks: {e}",
                               StoreError, <<>>, 0), "list_todos", TRUE)
       ELSE IF listed = <<>>
       THEN Result(store, Text("You don't have any tasks yet. Try adding one!",
                               <<>>, <<>>, 0), "list_todos", TRUE)
       ELSE IF additional_count > 0
       THEN Result(store, Text("Here are your tasks: {titles} ... and {additional_count} more",
                               <<>>, Rows(store, Take(listed, MaxShown)), additional_count),
                   "list_todos", TRUE)
       ELSE Result(store, Text("Here are your tasks: {titles}", <<>>,
                               Rows(store, Take(listed, MaxShown)), 0),
                   "list_todos", TRUE)

process_list_todos_command(message, user_id, store, fault) ==
    LET listed == CreatedDesc(store, OwnedBy(store, user_id))
        additional_count == Len(listed) - MaxShown
    IN IF fault = "select"
       THEN Result(store, Text("Sorry, I couldn't retrieve your tasks: {e}",
                               StoreError, <<>>, 0), "list_todos", FALSE)
       ELSE IF listed = <<>>
       THEN Result(store, Text("You don't have any tasks yet. Try adding one!",
                               <<>>, <<>>, 0), "list_todos", TRUE)
       ELSE IF additional_count > 0
       THEN Result(store, Text("Here are your tasks: {titles} ... and {additional_count} more",
                               <<>>, Rows(store, Take(listed, MaxShown)), additional_count),
                   "list_todos", TRUE)
       ELSE Result(store, Text("Here are your tasks: {titles}", <<>>,
                               Rows(store, Take(listed, MaxShown)), 0),
                   "list_todos", TRUE)

\* the branch process_natural_language_command takes for a category
dispatch(category, message, user_id, store, fault) ==
    IF category = "create"
    THEN process_create_todo_command(message, user_id, store, fault)
    ELSE IF category = "update"
    THEN process_update_todo_command(message, user_id, store, fault)
    ELSE IF category = "complete"
    THEN process_complete_todo_command(message, user_id, store, fault)
    ELSE IF category = "delete"
    THEN process_delete_todo_command(message, user_id, store, fault)
    ELSE IF category = "list"
    THEN process_list_todos_command(message, user_id, store, fault)
    ELSE Result(store,
                Text("I'm not sure how to handle '{message}'. Try commands like 'Add a task to buy milk' or 'Show my tasks'.",
                     message, <<>>, 0),
                "unknown", FALSE)

\* the intent classifier and dispatcher
process_natural_language_command(message, user_id, store, fault) ==
    dispatch(Scan(message).category, message, user_id, store, fault)

(***************************************************************************)
(* Bounds and inputs                                                       *)
(***************************************************************************)
MaxSessions == 2
MaxTurns == 1
MaxTodos == 2

SessionIds == 1..MaxSessions
TodoIds == 1..MaxTodos

(***************************************************************************)
(* Requests. last records the request and its response: the HTTP status,   *)
(* the detail of a rejection, and the fields of the response body.         *)
(***************************************************************************)
NoText == Text("", <<>>, <<>>, 0)

Response(op, user, sessionId, todoId, message, status, detail) ==
    [op |-> op, user |-> user, sessionId |-> sessionId, todoId |-> todoId,
     message |-> message, userId |-> 0, status |-> status, detail |-> detail,
     response |-> NoText, intent |-> "", processed |-> FALSE,
     rows |-> <<>>, page |-> <<>>, totalCount |-> 0,
     body |-> <<>>, access_token |-> <<>>]

(***************************************************************************)
(* Passwords.  bcrypt hashes the first 72 bytes of a password; the salt is  *)
(* left out, so that a hash is the text it was computed from.              *)
(***************************************************************************)
MaxBcryptBytes == 72

\* get_password_hash: if len(password) > 72: password = password[:72]
get_password_hash(password) == Take(password, MaxBcryptBytes)

\* what bcrypt.checkpw does with a password of more than 72 bytes depends on
\* the installed bcrypt: it hashes the first 72 bytes, or it raises ValueError
BcryptBuilds == {"truncates", "raises"}

\* verify_password on a build and a password for which checkpw returns
verify_password(plain_password, hashed_password) ==
    Take(plain_password, MaxBcryptBytes) = hashed_password

\* a row of the User table; registered_password is not stored: it records
\* the password of the registration request for the properties below
UserRow(username, email, password) ==
    [username |-> username, email |-> email,
     hashed_password |-> get_password_hash(password),
     registered_password |-> password]

Password == <<"p","a","s","s","w","o","r","d">>

\* the two users every other specification starts with
SeedUsers ==
    <<UserRow(<<"a","n","n">>, <<"a","@","x",".","y">>, Password),
      UserRow(<<"b","o","b">>, <<"b","@","x",".","y">>, Password)>>

\* the worker threads that run a request step by step; every other request
\* is taken as one step
Threads == {"a", "b"}

\* no request in progress
Idle == [t \in Threads |-> [pc |-> "idle"]]

\* the state after start-up, before any chat session, with the Todo table
\* holding store
InitWith(store) ==
    /\ users = SeedUsers
    /\ requests = Idle
    /\ todos = store
    /\ nextTodoId = Cardinality(DOMAIN store) + 1
    /\ now = Cardinality(DOMAIN store) + 1
    /\ chat_sessions = <<>>
    /\ conversations = <<>>
    /\ messages = <<>>
    /\ last = Response("none", 0, 0, 0, <<>>, 0, "")

\* ConversationRepository.create_conversation: the store assigns the next id
create_conversation(user_id) ==
    conversations' = Append(conversations, [user_id |-> user_id])

\* create_message putting the new row in front of the table
create_message_first(table, user_id, conversation_id, role, content) ==
    <<[user_id |-> user_id, conversation_id |-> conversation_id,
       role |-> role, content |-> content]>> \o table

\* MessageRepository.create_message: one row appended and committed
create_message(table, user_id, conversation_id, role, content) ==
    Append(table, [user_id |-> user_id, conversation_id |-> conversation_id,
                   role |-> role, content |-> content])

\* the content of a Message that holds the text of a request
RawText(message) == Text("{message}", message, <<>>, 0)

\* start_chat_session binding every session to the first conversation
start_chat_session_rebinding(current_user) ==
    /\ Len(chat_sessions) < MaxSessions
    /\ create_conversation(current_user)
    /\ chat_sessions' = Append(chat_sessions,
           [userId |-> current_user, conversationId |-> 1, isActive |-> TRUE])
    /\ last' = Response("start", current_user, Len(chat_sessions) + 1, 0, <<>>, 200, "")
    /\ UNCHANGED <<users, requests, todos, nextTodoId, now, messages>>

\* POST /chat/start
start_chat_session(current_user) ==
    /\ Len(chat_sessions) < MaxSessions
    /\ create_conversation(current_user)
    /\ chat_sessions' = Append(chat_sessions,
           [userId |-> current_user, conversationId |-> Len(conversations) + 1,
            isActive |-> TRUE])
    /\ last' = Response("start", current_user, Len(chat_sessions) + 1, 0, <<>>, 200, "")
    /\ UNCHANGED <<users, requests, todos, nextTodoId, now, messages>>

\* SendRejection without the isActive test
SendRejectionIgnoringActive(sessionId, current_user, request) ==
    IF sessionId \notin DOMAIN chat_sessions THEN [status |-> 404, detail |-> "Chat session not found"]
    ELSE IF chat_sessions[sessionId].userId # request.userId
    THEN [status |-> 403, detail |-> "Not authorized to access this chat session"]
    ELSE IF current_user # request.userId
    THEN [status |-> 403, detail |-> "Not authorized"]
    ELSE IF chat_sessions[sessionId].conversationId = 0
    THEN [status |-> 400, detail |-> "No conversation associated with this session"]
    ELSE [status |-> 200, detail |-> ""]

\* POST /chat/{sessionId}/message: the checks before the turn; status 200
\* when the request is accepted
SendRejection(sessionId, current_user, request) ==
    IF sessionId \notin DOMAIN chat_sessions THEN [status |-> 404, detail |-> "Chat session not found"]
    ELSE IF chat_sessions[sessionId].userId # request.userId
    THEN [status |-> 403, detail |-> "Not authorized to access this chat session"]
    ELSE IF ~chat_sessions[sessionId].isActive
    THEN [status |-> 400, detail |-> "Chat session is inactive"]
    ELSE IF current_user # request.userId
    THEN [status |-> 403, detail |-> "Not authorized"]
    ELSE IF chat_sessions[sessionId].conversationId = 0
    THEN [status |-> 400, detail |-> "No conversation associated with this session"]
    ELSE [status |-> 200, detail |-> ""]

\* the turn of an accepted request, ai_response being what the command
\* returned: the user's message is stored, then the reply
chat_turn(sessionId, current_user, request, fault, usable, ai_response) ==
    LET conversation_id == chat_sessions[sessionId].conversationId
        with_user_message ==
            create_message(messages, current_user, conversation_id, "user",
                           RawText(request.message))
        with_ai_message ==
            create_message(with_user_message, current_user, conversation_id,
                           "assistant", ai_response.response)
        \* the command has caught a store error
        absorbed == ai_response.response.phrase = StoreError
        answer(status, detail) ==
            [Response("send", current_user, sessionId, 0, request.message, status, detail)
             EXCEPT !.userId = request.userId]
        failure == answer(500, "Internal Server Error")
    IN /\ Len(messages) < 2 * MaxTurns
       /\ IF fault = "save_user_message"
          THEN /\ last' = failure
               /\ UNCHANGED <<todos, messages>>
          ELSE IF fault = "save_reply" \/ (absorbed /\ ~usable)
          THEN /\ todos' = ai_response.store
               /\ messages' = with_user_message
               /\ last' = failure
          ELSE /\ todos' = ai_response.store
               /\ messages' = with_ai_message
               /\ last' = [answer(200, "")
                           EXCEPT !.response = ai_response.response,
                                  !.intent = ai_response.intent,
                                  !.processed = ai_response.processed]
       /\ UNCHANGED <<users, requests, nextTodoId, now, chat_sessions, conversations>>

\* the answer to a request the checks reject
chat_rejected(sessionId, current_user, request, rejection) ==
    /\ last' = [Response("send", current_user, sessionId, 0, request.message,
                         rejection.status, rejection.detail)
                EXCEPT !.userId = request.userId]
    /\ UNCHANGED <<users, requests, todos, nextTodoId, now, chat_sessions, conversations, messages>>

\* POST /chat/{sessionId}/message. fault names the store operation of the
\* turn that raises; usable tells whether the database session still works
\* after a command has absorbed a store error.
send_chat_message(sessionId, current_user, request, fault, usable) ==
    IF SendRejection(sessionId, current_user, request).status # 200
    THEN chat_rejected(sessionId, current_user, request,
                       SendRejection(sessionId, current_user, request))
    ELSE chat_turn(sessionId, current_user, request, fault, usable,
                   process_natural_language_command(request.message, current_user,
                                                    todos, fault))

\* get_messages_by_conversation without the offset
get_messages_by_conversation_from_start(conversation_id, user_id, limit, offset) ==
    LET rows == SelectSeq(messages, LAMBDA m :
                    /\ m.conversation_id = conversation_id
                    /\ conversations[conversation_id].user_id = user_id)
    IN SubSeq(rows, 1, IF Len(rows) < limit THEN Len(rows) ELSE limit)

\* MessageRepository.get_messages_by_conversation: the rows of the
\* conversation, if user_id owns it, in created_at order, from offset, at
\* most limit of them
get_messages_by_conversation(conversation_id, user_id, limit, offset) ==
    LET rows == SelectSeq(messages, LAMBDA m :
                    /\ m.conversation_id = conversation_id
                    /\ conversations[conversation_id].user_id = user_id)
    IN SubSeq(rows, offset + 1, IF Len(rows) < offset + limit THEN Len(rows) ELSE offset + limit)

\* get_chat_history without the test of the caller against the session's owner
get_chat_history_any_user(sessionId, current_user, limit, offset) ==
    /\ IF sessionId \notin DOMAIN chat_sessions
       THEN last' = Response("history", current_user, sessionId, 0, <<>>, 404,
                             "Chat session not found")
       ELSE IF chat_sessions[sessionId].conversationId = 0
       THEN last' = Response("history", current_user, sessionId, 0, <<>>, 400,
                             "No conversation associated with this session")
       ELSE LET formatted_messages ==
                    get_messages_by_conversation(chat_sessions[sessionId].conversationId,
                                                 chat_sessions[sessionId].userId, limit, offset)
            IN last' = [Response("history", current_user, sessionId, 0, <<>>, 200, "")
                        EXCEPT !.page = formatted_messages,
                               !.totalCount = Len(formatted_messages)]
    /\ UNCHANGED <<users, requests, todos, nextTodoId, now, chat_sessions, conversations, messages>>

\* GET /chat/{sessionId}/history
get_chat_history(sessionId, current_user, limit, offset) ==
    /\ IF sessionId \notin DOMAIN chat_sessions
       THEN last' = Response("history", current_user, sessionId, 0, <<>>, 404,
                             "Chat session not found")
       ELSE IF current_user # chat_sessions[sessionId].userId
       THEN last' = Response("history", current_user, sessionId, 0, <<>>, 403,
                             "Not authorized to access this chat session")
       ELSE IF chat_sessions[sessionId].conversationId = 0
       THEN last' = Response("history", current_user, sessionId, 0, <<>>, 400,
                             "No conversation associated with this session")
       ELSE LET formatted_messages ==
                    get_messages_by_conversation(chat_sessions[sessionId].conversationId,
                                                 current_user, limit, offset)
            IN last' = [Response("history", current_user, sessionId, 0, <<>>, 200, "")
                        EXCEPT !.page = formatted_messages,
                               !.totalCount = Len(formatted_messages)]
    /\ UNCHANGED <<users, requests, todos, nextTodoId, now, chat_sessions, conversations, messages>>

\* end_chat_session flipping isActive instead of clearing it
end_chat_session_toggling(sessionId, current_user) ==
    IF sessionId \notin DOMAIN chat_sessions
    THEN /\ last' = Response("end", current_user, sessionId, 0, <<>>, 404,
                             "Chat session not found")
         /\ UNCHANGED <<users, requests, todos, nextTodoId, now, chat_sessions, conversations, messages>>
    ELSE IF current_user # chat_sessions[sessionId].userId
    THEN /\ last' = Response("end", current_user, sessionId, 0, <<>>, 403,
                             "Not authorized to access this chat session")
         /\ UNCHANGED <<users, requests, todos, nextTodoId, now, chat_sessions, conversations, messages>>
    ELSE /\ chat_sessions' = [chat_sessions EXCEPT
                                 ![sessionId].isActive = ~chat_sessions[sessionId].isActive]
         /\ last' = Response("end", current_user, sessionId, 0, <<>>, 200, "")
         /\ UNCHANGED <<users, requests, todos, nextTodoId, now, conversations, messages>>

\* DELETE /chat/{sessionId}
end_chat_session(sessionId, current_user) ==
    IF sessionId \notin DOMAIN chat_sessions
    THEN /\ last' = Response("end", current_user, sessionId, 0, <<>>, 404,
                             "Chat session not found")
         /\ UNCHANGED <<users, requests, todos, nextTodoId, now, chat_sessions, conversations, messages>>
    ELSE IF current_user # chat_sessions[sessionId].userId
    THEN /\ last' = Response("end", current_user, sessionId, 0, <<>>, 403,
                             "Not authorized to access this chat session")
         /\ UNCHANGED <<users, requests, todos, nextTodoId, now, chat_sessions, conversations, messages>>
    ELSE /\ chat_sessions' = [chat_sessions EXCEPT ![sessionId].isActive = FALSE]
         /\ last' = Response("end", current_user, sessionId, 0, <<>>, 200, "")
         /\ UNCHANGED <<users, requests, todos, nextTodoId, now, conversations, messages>>

(***************************************************************************)
(* The REST todo endpoints                                                 *)
(***************************************************************************)
\* GET /todos/ with the default query: the caller's todos, newest first
get_todos(current_user) ==
    /\ last' = [Response("get_todos", current_user, 0, 0, <<>>, 200, "")
                EXCEPT !.rows = Rows(todos, CreatedDesc(todos, OwnedBy(todos, current_user)))]
    /\ UNCHANGED <<users, requests, todos, nextTodoId, now, chat_sessions, conversations, messages>>

\* description: Optional[str] = None; the empty sequence stands for None
NoDescription == <<>>

\* due_date: Optional[datetime] = None; 0 stands for None
NoDueDate == 0

\* Todo(**todo.model_dump(), user_id=user.id, ...) added and committed; the
\* fields a request leaves out take the defaults of TodoCreate
Inserted(store, id, title, completed, user_id, created_at) ==
    [i \in DOMAIN store \cup {id} |->
        IF i = id
        THEN [title |-> title, description |-> NoDescription,
              completed |-> completed, user_id |-> user_id,
              created_at |-> created_at, updated_at |-> created_at,
              priority |-> "medium", due_date |-> NoDueDate,
              category |-> NoDescription]
        ELSE store[i]]

MaxTitleLen == 200

\* title: str = Field(min_length=1, max_length=200) of the request models
\* TodoCreate and TodoUpdate, which FastAPI validates before the handler runs
ValidTitle(title) == Len(title) \in 1..MaxTitleLen

\* the 422 answer to a request body that fails validation
Unprocessable(op, current_user, todo_id) ==
    /\ last' = Response(op, current_user, 0, todo_id, <<>>, 422, "Unprocessable Entity")
    /\ UNCHANGED <<users, requests, todos, nextTodoId, now, chat_sessions, conversations, messages>>

\* Updated writing None to the optional text fields the request leaves out
UpdatedWithUnset(store, todo_id, update_data) ==
    [store EXCEPT ![todo_id] =
        [field \in DOMAIN store[todo_id] |->
            IF field \in DOMAIN update_data THEN update_data[field]
            ELSE IF field \in {"description", "category"} THEN NoDescription
            ELSE store[todo_id][field]]]

\* for field, value in todo_update.model_dump(exclude_unset=True).items():
\*     setattr(db_todo, field, value)
Updated(store, todo_id, update_data) ==
    [store EXCEPT ![todo_id] =
        [field \in DOMAIN store[todo_id] |->
            IF field \in DOMAIN update_data THEN update_data[field]
            ELSE store[todo_id][field]]]

\* POST /todos/
create_todo(current_user, todo) ==
    IF ~ValidTitle(todo.title)
    THEN Unprocessable("create_todo", current_user, 0)
    ELSE /\ nextTodoId <= MaxTodos
         /\ todos' = Updated(Inserted(todos, nextTodoId, todo.title, todo.completed,
                                      current_user, now),
                             nextTodoId, todo)
         /\ nextTodoId' = nextTodoId + 1
         /\ now' = now + 1
         /\ last' = [Response("create_todo", current_user, 0, nextTodoId, <<>>, 201, "")
                     EXCEPT !.rows = Rows(todos', <<nextTodoId>>)]
         /\ UNCHANGED <<users, requests, chat_sessions, conversations, messages>>

\* TodoRejection without the owner test
TodoRejectionAnyOwner(todo_id, current_user) ==
    IF todo_id \notin DOMAIN todos THEN [status |-> 404, detail |-> "Todo not found"]
    ELSE [status |-> 200, detail |-> ""]

\* the lookup GET, PUT and DELETE /todos/{todo_id} share
TodoRejection(todo_id, current_user) ==
    IF todo_id \notin DOMAIN todos THEN [status |-> 404, detail |-> "Todo not found"]
    ELSE IF todos[todo_id].user_id # current_user
    THEN [status |-> 403, detail |-> "Not authorized"]
    ELSE [status |-> 200, detail |-> ""]

\* GET /todos/{todo_id}
get_todo(todo_id, current_user) ==
    LET rejection == TodoRejection(todo_id, current_user)
    IN /\ IF rejection.status # 200
          THEN last' = Response("get_todo", current_user, 0, todo_id, <<>>,
                                rejection.status, rejection.detail)
          ELSE last' = [Response("get_todo", current_user, 0, todo_id, <<>>, 200, "")
                        EXCEPT !.rows = Rows(todos, <<todo_id>>)]
       /\ UNCHANGED <<users, requests, todos, nextTodoId, now, chat_sessions, conversations, messages>>

\* PUT /todos/{todo_id}
update_todo(todo_id, todo_update, current_user) ==
    LET rejection == TodoRejection(todo_id, current_user)
    IN IF "title" \in DOMAIN todo_update /\ ~ValidTitle(todo_update.title)
       THEN Unprocessable("update_todo", current_user, todo_id)
       ELSE IF rejection.status # 200
       THEN /\ last' = Response("update_todo", current_user, 0, todo_id, <<>>,
                                rejection.status, rejection.detail)
            /\ UNCHANGED <<users, requests, todos, nextTodoId, now, chat_sessions, conversations, messages>>
       ELSE /\ todos' = [Updated(todos, todo_id, todo_update)
                         EXCEPT ![todo_id].updated_at = now]
            /\ last' = [Response("update_todo", current_user, 0, todo_id, <<>>, 200, "")
                        EXCEPT !.rows = Rows(todos', <<todo_id>>)]
            /\ UNCHANGED <<users, requests, nextTodoId, now, chat_sessions, conversations, messages>>

\* delete_todo answering 204 without deleting the row
delete_todo_keeping(todo_id, current_user) ==
    LET rejection == TodoRejection(todo_id, current_user)
    IN IF rejection.status # 200
       THEN /\ last' = Response("delete_todo", current_user, 0, todo_id, <<>>,
                                rejection.status, rejection.detail)
            /\ UNCHANGED <<users, requests, todos, nextTodoId, now, chat_sessions, conversations, messages>>
       ELSE /\ last' = Response("delete_todo", current_user, 0, todo_id, <<>>, 204, "")
            /\ UNCHANGED <<users, requests, todos, nextTodoId, now, chat_sessions, conversations, messages>>

\* DELETE /todos/{todo_id}
delete_todo(todo_id, current_user) ==
    LET rejection == TodoRejection(todo_id, current_user)
    IN IF rejection.status # 200
       THEN /\ last' = Response("delete_todo", current_user, 0, todo_id, <<>>,
                                rejection.status, rejection.detail)
            /\ UNCHANGED <<users, requests, todos, nextTodoId, now, chat_sessions, conversations, messages>>
       ELSE /\ todos' = [id \in DOMAIN todos \ {todo_id} |-> todos[id]]
            /\ last' = Response("delete_todo", current_user, 0, todo_id, <<>>, 204, "")
            /\ UNCHANGED <<users, requests, nextTodoId, now, chat_sessions, conversations, messages>>

(***************************************************************************)
(* Spec: the chat dispatcher. Each user has created one todo through       *)
(* POST /todos/ before the first chat session starts.                      *)
(***************************************************************************)
SeedTodos ==
    Inserted(Inserted(<<>>, 1, TitleTea, FALSE, 1, 1), 2, TitleTea, FALSE, 2, 2)

Init == InitWith(SeedTodos)

ChatMessages == {MsgDone, MsgHello}

Requests == [message : ChatMessages, userId : Users]

HistoryPages ==
    {[limit |-> 50, offset |-> 0], [limit |-> 1, offset |-> 1], [limit |-> 1, offset |-> 0]}

StartChat == \E u \in Users : start_chat_session(u)

SendMessage ==
    \E s \in SessionIds, u \in Users, r \in Requests :
        send_chat_message(s, u, r, "none", TRUE)

GetHistory ==
    \E s \in SessionIds, u \in Users, p \in HistoryPages :
        get_chat_history(s, u, p.limit, p.offset)

EndChat == \E s \in SessionIds, u \in Users : end_chat_session(s, u)

Next ==
    \/ StartChat
    \/ SendMessage
    \/ GetHistory
    \/ EndChat

Spec == Init /\ [][Next]_vars

(***************************************************************************)
(* SpecFault: the chat dispatcher when a store operation of a turn raises  *)
(***************************************************************************)
SendFaults == {"save_user_message", "save_reply"} \cup CommandFaults

SendMessageFault ==
    \E s \in SessionIds, u \in Users, r \in Requests, f \in SendFaults, usable \in BOOLEAN :
        send_chat_message(s, u, r, f, usable)

NextFault ==
    \/ Next
    \/ SendMessageFault

SpecFault == Init /\ [][NextFault]_vars

(***************************************************************************)
(* SpecExec: the command executors and POST /todos/ on a Todo table that   *)
(* starts empty                                                            *)
(***************************************************************************)
\* the step of a command called on its own: the table it leaves and its
\* result
command_step(op, message, user_id, result) ==
    /\ todos' = result.store
    /\ last' = [Response(op, user_id, 0, 0, message, 200, "")
                EXCEPT !.response = result.response,
                       !.intent = result.intent,
                       !.processed = result.processed]
    /\ UNCHANGED <<users, requests, nextTodoId, now, chat_sessions, conversations, messages>>

\* a command handed to the classifier as send_chat_message hands it over
chat_command(message, user_id) ==
    command_step("command", message, user_id,
                 process_natural_language_command(message, user_id, todos, "none"))

\* process_complete_todo_command called on its own
complete_command(message, user_id) ==
    command_step("complete", message, user_id,
                 process_complete_todo_command(message, user_id, todos, "none"))

InitExec == InitWith(<<>>)

NewTodos == [title : Titles, description : {NoDescription}, completed : {FALSE}]

ChatCommand == \E u \in Users, m \in Commands : chat_command(m, u)

CreateTodo == \E u \in Users, t \in NewTodos : create_todo(u, t)

NextExec ==
    \/ ChatCommand
    \/ CreateTodo

SpecExec == InitExec /\ [][NextExec]_vars

(***************************************************************************)
(* SpecRest: the REST todo endpoints together with one command of each     *)
(* category                                                                *)
(***************************************************************************)
RestCommands == {MsgAddMilk, MsgChangeMilkToBread, MsgDone, MsgDeleteAny, MsgShow}

\* PUT bodies: the fields that are set
TodoUpdates == {[title |-> TitleTea], [completed |-> TRUE]}

RestCommand == \E u \in Users, m \in RestCommands : chat_command(m, u)

GetTodos == \E u \in Users : get_todos(u)

GetTodo == \E id \in TodoIds, u \in Users : get_todo(id, u)

UpdateTodo == \E id \in TodoIds, u \in Users, d \in TodoUpdates : update_todo(id, d, u)

DeleteTodo == \E id \in TodoIds, u \in Users : delete_todo(id, u)

NextRest ==
    \/ RestCommand
    \/ GetTodos
    \/ CreateTodo
    \/ GetTodo
    \/ UpdateTodo
    \/ DeleteTodo

SpecRest == InitExec /\ [][NextRest]_vars

(***************************************************************************)
(* SpecParse: the classifier and the complete executor on the one- and     *)
(* two-word messages of ParseInputs, from a Todo table that is empty,      *)
(* holds one todo of user 2, or holds one todo of each user                *)
(***************************************************************************)
ParseStores == {<<>>, Inserted(<<>>, 1, TitleTea, FALSE, 2, 1), SeedTodos}

InitParse == \E store \in ParseStores : InitWith(store)

\* the commands come from user 1
ParseCallers == {1}

ClassifyCommand == \E u \in ParseCallers, m \in ClassifyInputs : chat_command(m, u)

CompleteCommand == \E u \in ParseCallers, m \in CompleteInputs : complete_command(m, u)

NextParse ==
    \/ ClassifyCommand
    \/ CompleteCommand

SpecParse == InitParse /\ [][NextParse]_vars

(***************************************************************************)
(* Properties of the chat dispatcher (Spec, SpecFault)                     *)
(***************************************************************************)
\* the send of the step is made by the owner of an existing session
OwnerSends(sessionId) ==
    /\ last'.op = "send"
    /\ last'.sessionId = sessionId
    /\ last'.user = chat_sessions[sessionId].userId
    /\ last'.userId = chat_sessions[sessionId].userId

\* C1: a successful end_chat_session leaves the session inactive, and every
\* send_chat_message of the owner on an inactive session is rejected with
\* 400 "Chat session is inactive", appends no Message and changes no Todo.
C1_EndedSessionRejectsMessages ==
    [][\A s \in DOMAIN chat_sessions :
          /\ (last'.op = "end" /\ last'.sessionId = s /\ last'.status = 200)
                => ~chat_sessions'[s].isActive
          /\ (~chat_sessions[s].isActive /\ OwnerSends(s))
                => /\ last'.status = 400
                   /\ last'.detail = "Chat session is inactive"
                   /\ messages' = messages
                   /\ todos' = todos]_vars

\* the owner's message to an ended session has been rejected
C1_Witness ==
    /\ last.op = "send"
    /\ last.sessionId \in DOMAIN chat_sessions
    /\ ~chat_sessions[last.sessionId].isActive
    /\ last.user = chat_sessions[last.sessionId].userId
    /\ last.userId = last.user
    /\ last.status = 400

\* C3: a session is created active, no session leaves the registry, and a
\* session that is inactive is inactive after every operation.
C3_EndedIsTerminal ==
    [][/\ \A s \in DOMAIN chat_sessions :
             /\ s \in DOMAIN chat_sessions'
             /\ ~chat_sessions[s].isActive => ~chat_sessions'[s].isActive
       /\ \A s \in DOMAIN chat_sessions' \ DOMAIN chat_sessions :
             chat_sessions'[s].isActive]_vars

\* end_chat_session has succeeded on a session that a turn had been
\* accepted on, and a later operation found it ended
C3_Witness ==
    /\ last.op \in {"end", "history", "send"}
    /\ last.sessionId \in DOMAIN chat_sessions
    /\ last.user = chat_sessions[last.sessionId].userId
    /\ ~chat_sessions[last.sessionId].isActive
    /\ \E n \in DOMAIN messages :
           messages[n].conversation_id = chat_sessions[last.sessionId].conversationId
    /\ \E s \in DOMAIN chat_sessions : chat_sessions[s].isActive

\* C2: every accepted send_chat_message appends exactly two Message records
\* to the session's conversation: the user's raw text, then the assistant
\* record holding the reply returned to the caller; no accepted call appends
\* zero or one record, store failures included.
C2_AcceptedTurnAppendsTwoRecords ==
    [][(last'.op = "send" /\ last'.status \notin {400, 403, 404})
          => /\ Len(messages') = Len(messages) + 2
             /\ SubSeq(messages', 1, Len(messages)) = messages
             /\ LET conversation_id == chat_sessions[last'.sessionId].conversationId
                    user_message == messages'[Len(messages) + 1]
                    ai_message == messages'[Len(messages) + 2]
                IN /\ user_message.conversation_id = conversation_id
                   /\ user_message.role = "user"
                   /\ user_message.content = RawText(last'.message)
                   /\ ai_message.conversation_id = conversation_id
                   /\ ai_message.role = "assistant"
                   /\ ai_message.content = last'.response]_vars

(***************************************************************************)
(* Properties of the todo endpoints and the command executors              *)
(***************************************************************************)
\* the todos of user_id before the step
OwnTodos(user_id) == {id \in DOMAIN todos : todos[id].user_id = user_id}

\* C4: whatever a user does, by chat command or by REST request, every Todo
\* of another user stays as it is, every row shown to the user in a reply or
\* a response is a row of the user's own todos, and GET, PUT and DELETE on
\* the id of another user's todo answer 403.
C4_OwnerIsolation ==
    [][LET A == last'.user
       IN /\ \A id \in DOMAIN todos \ OwnTodos(A) :
                id \in DOMAIN todos' /\ todos'[id] = todos[id]
          /\ \A n \in DOMAIN last'.rows : last'.rows[n].user_id = A
          /\ \A n \in DOMAIN last'.response.rows : last'.response.rows[n].user_id = A
          /\ (/\ last'.op \in {"get_todo", "update_todo", "delete_todo"}
              /\ last'.todoId \in DOMAIN todos \ OwnTodos(A))
                => (last'.status = 403 /\ last'.rows = <<>>)]_vars

\* a request on the id of another user's todo has been answered 403 and the
\* todo is still there
C4_Witness ==
    /\ last.op \in {"get_todo", "update_todo", "delete_todo"}
    /\ last.status = 403
    /\ last.todoId \in DOMAIN todos
    /\ todos[last.todoId].user_id # last.user

\* C5: the create command "add milk" inserts exactly one Todo of the caller
\* titled "milk" with completed=false and returns processed=true with a
\* reply naming the created title.
C5_AddMilkCreatesTodo ==
    [][(last'.op = "command" /\ last'.message = MsgAddMilk)
          => /\ last'.processed
             /\ last'.intent = "create_todo"
             /\ \E id \in DOMAIN todos' \ DOMAIN todos :
                   /\ DOMAIN todos' = DOMAIN todos \cup {id}
                   /\ todos'[id].title = MsgMilk
                   /\ ~todos'[id].completed
                   /\ todos'[id].user_id = last'.user
                   /\ last'.response.rows = <<Row(todos', id)>>
             /\ \A id \in DOMAIN todos : todos'[id] = todos[id]]_vars

\* the intent the priority order create, update, complete, delete, list
\* gives a lower-cased message
ExpectedIntent(m) ==
    IF \E n \in DOMAIN CreateKeywords : Contains(m, CreateKeywords[n]) THEN "create_todo"
    ELSE IF \E n \in DOMAIN UpdateKeywords : Contains(m, UpdateKeywords[n]) THEN "update_todo"
    ELSE IF \E n \in DOMAIN CompleteKeywords : Contains(m, CompleteKeywords[n])
    THEN "complete_todo"
    ELSE IF \E n \in DOMAIN DeleteKeywords : Contains(m, DeleteKeywords[n]) THEN "delete_todo"
    ELSE IF \E n \in DOMAIN ListKeywords : Contains(m, ListKeywords[n]) THEN "list_todos"
    ELSE "unknown"

\* the words the contract names: "add", "create", "buy", "get"
NamedCreateWords ==
    {<<"a","d","d">>, <<"c","r","e","a","t","e">>, <<"b","u","y">>, <<"g","e","t">>}

\* what the contract expects of each classified message: its intent, and
\* whether it contains one of the named create words
Expected ==
    [message \in ClassifyInputs |->
        [intent |-> ExpectedIntent(Lower(message)),
         named |-> \E w \in NamedCreateWords : Contains(Lower(message), w)]]

\* C6: the classifier answers every message with the intent of the first
\* category, in the order create, update, complete, delete, list, that has a
\* keyword in the lower-cased message; a message with no keyword gets intent
\* "unknown", processed=false and leaves the Todo table alone; a message
\* containing "add", "create", "buy" or "get" goes to the create executor
\* whatever other keywords it contains.
C6_ClassifierPriority ==
    [][last'.op = "command"
          => /\ last'.message \in DOMAIN Expected
             /\ last'.intent = Expected[last'.message].intent
             /\ last'.intent = "unknown"
                   => /\ ~last'.processed
                      /\ todos' = todos
                      /\ last'.response.rows = <<>>
             /\ Expected[last'.message].named => last'.intent = "create_todo"]_vars

\* a message with a create keyword and a keyword of another category has
\* been dispatched to the create executor
C6_Witness ==
    /\ last.op = "command"
    /\ last.intent = "create_todo"
    /\ Contains(Lower(last.message), <<"b","u","y">>)
    /\ Contains(Lower(last.message), UpdateKeywords[1])

\* the owner's todos whose title contains phrase, case-insensitively
Containing(user_id, phrase) ==
    {id \in OwnTodos(user_id) : Contains(Lower(todos[id].title), Lower(phrase))}

\* C7: the update command "change milk to Bread", when the caller has a todo
\* whose title contains "milk" case-insensitively, sets the title of one such
\* todo to "Bread", leaves its completed flag and every other todo
\* unchanged, and returns processed=true.
C7_RenameSetsNewTitle ==
    [][(/\ last'.op = "command"
        /\ last'.message = MsgChangeMilkToBread
        /\ Containing(last'.user, MsgMilk) # {})
          => /\ last'.processed
             /\ DOMAIN todos' = DOMAIN todos
             /\ \E id \in Containing(last'.user, MsgMilk) :
                   /\ todos'[id] = [todos[id] EXCEPT !.title = <<"B","r","e","a","d">>]
                   /\ \A other \in DOMAIN todos \ {id} : todos'[other] = todos[other]]_vars

\* the target phrase and the executor of the update and delete commands
TargetCommands ==
    [message \in {MsgUpdateMilk, MsgChangeMilkToBread, MsgDeleteMilk, MsgDeleteAny} |->
        IF message = MsgDeleteAny THEN [phrase |-> <<"%">>, verb |-> "delete"]
        ELSE IF message = MsgDeleteMilk THEN [phrase |-> MsgMilk, verb |-> "delete"]
        ELSE [phrase |-> MsgMilk, verb |-> "update"]]

\* C8: an update or delete command whose target phrase no todo of the caller
\* contains returns processed=false and leaves the Todo table unchanged; the
\* reply is the "nothing to update/delete" message when the caller has no
\* todos, and lists min(n, 5) of the caller's n >= 1 titles otherwise.
C8_NoMatchLeavesStore ==
    [][(/\ last'.op = "command"
        /\ last'.message \in DOMAIN TargetCommands
        /\ Containing(last'.user, TargetCommands[last'.message].phrase) = {})
          => LET own == OwnTodos(last'.user)
                 n == Cardinality(own)
                 verb == TargetCommands[last'.message].verb
             IN /\ ~last'.processed
                /\ todos' = todos
                /\ n = 0 => /\ last'.response.rows = <<>>
                            /\ last'.response.text =
                                 IF verb = "update" THEN "You don't have any tasks to update."
                                 ELSE "You don't have any tasks to delete."
                /\ n >= 1 => /\ Len(last'.response.rows) = IF n < 5 THEN n ELSE 5
                             /\ \A k \in DOMAIN last'.response.rows :
                                   /\ last'.response.rows[k].id \in own
                                   /\ \A j \in DOMAIN last'.response.rows :
                                         last'.response.rows[j].id = last'.response.rows[k].id
                                            => j = k]_vars

\* C9: process_complete_todo_command called for a user who has no todos
\* returns processed=false and leaves the Todo table unchanged, whatever the
\* message, with or without a target phrase.
C9_CompleteWithoutTodos ==
    [][(last'.op = "complete" /\ OwnTodos(last'.user) = {})
          => (~last'.processed /\ todos' = todos /\ last'.intent = "complete_todo")]_vars

\* the complete executor has answered a message with a target phrase for a
\* user without todos while another user has a todo
C9_Witness ==
    /\ last.op = "complete"
    /\ last.message = CompleteKeywords[3] \o <<" ">> \o MsgMilk
    /\ ~last.processed
    /\ todos # <<>>
    /\ \A id \in DOMAIN todos : todos[id].user_id # last.user

\* C10 as claimed: after "delete milk" has deleted a todo, the same command
\* again from the same user returns processed=false and removes nothing.
C10_RepeatedDeleteFindsNothing ==
    [][(/\ last.op = "command" /\ last.message = MsgDeleteMilk /\ last.processed
        /\ last'.op = "command" /\ last'.message = MsgDeleteMilk
        /\ last'.user = last.user)
          => (~last'.processed /\ todos' = todos)]_vars

\* the caller's todos the store's title pattern %phrase% matches
Matching(user_id, phrase) ==
    {id \in OwnTodos(user_id) : ILikeContains(todos[id].title, phrase)}

\* C10: a deleted todo is gone for good: its id never returns to the table
\* and a list reply shows only rows that are in the table. The same delete
\* command again is not an error: when no todo of the caller matches the
\* phrase any more, by the store's pattern or as a substring, it returns
\* processed=false and removes nothing; otherwise it removes exactly one
\* more todo of the caller, the most recently created one the store's
\* pattern matches if there is one.
C10_DeleteRemovesNewestMatch ==
    [][/\ \A id \in 1..(nextTodoId - 1) : id \notin DOMAIN todos => id \notin DOMAIN todos'
       /\ (last'.op = "command" /\ last'.intent = "list_todos")
             => \A k \in DOMAIN last'.response.rows :
                   /\ last'.response.rows[k].id \in DOMAIN todos'
                   /\ last'.response.rows[k] = Row(todos', last'.response.rows[k].id)
       /\ (last'.op = "command" /\ last'.message \in {MsgDeleteMilk, MsgDeleteAny})
             => LET phrase == TargetCommands[last'.message].phrase
                    matches == Matching(last'.user, phrase)
                    containing == Containing(last'.user, phrase)
                IN /\ last'.intent = "delete_todo"
                   /\ (matches = {} /\ containing = {}) => (~last'.processed /\ todos' = todos)
                   /\ (matches # {} \/ containing # {})
                         => /\ last'.processed
                            /\ \E id \in (IF matches # {} THEN matches ELSE containing) :
                                  /\ \A j \in matches :
                                        todos[j].created_at <= todos[id].created_at
                                  /\ todos' = [i \in DOMAIN todos \ {id} |-> todos[i]]]_vars

\* "delete milk" has been given twice in a row by a user who had two todos
\* matching it: the second has removed the older one and none is left
C10_Witness ==
    /\ last.op = "command"
    /\ last.message = MsgDeleteMilk
    /\ last.processed
    /\ last.response.rows # <<>>
    /\ last.response.rows[1].id = 1
    /\ nextTodoId = 3
    /\ todos = <<>>

(***************************************************************************)
(* SpecList: the list command on Todo tables of 0 to MaxListed todos,      *)
(* created one after the other through POST /todos/ by either user         *)
(***************************************************************************)
MaxListed == 7

\* the table after the todos of owners, a sequence of users, were created in
\* that order
RECURSIVE CreatedBy(_)
CreatedBy(owners) ==
    IF owners = <<>> THEN <<>>
    ELSE Inserted(CreatedBy(SubSeq(owners, 1, Len(owners) - 1)), Len(owners),
                  IF Len(owners) % 2 = 1 THEN TitleTea ELSE TitleBuyMilk,
                  FALSE, owners[Len(owners)], Len(owners))

ListStores == {CreatedBy(owners) : owners \in UNION {[1..n -> Users] : n \in 0..MaxListed}}

InitList == \E store \in ListStores : InitWith(store)

ListCommand == \E u \in Users : chat_command(MsgShow, u)

NextList == ListCommand

SpecList == InitList /\ [][NextList]_vars

\* C11: the list command of a user with n todos shows exactly the min(n, 5)
\* most recently created of them, newest first; it adds the count n - 5 when
\* n > 5, no count when 1 <= n <= 5, and answers with the encouragement
\* message when n = 0. It never changes the Todo table.
C11_ListShowsNewestFive ==
    [][(last'.op = "command" /\ last'.message = MsgShow)
          => LET own == OwnTodos(last'.user)
                 n == Cardinality(own)
                 rows == last'.response.rows
                 shown == {rows[k].id : k \in DOMAIN rows}
             IN /\ todos' = todos
                /\ Len(rows) = IF n < 5 THEN n ELSE 5
                /\ \A k \in DOMAIN rows :
                      /\ rows[k].id \in own
                      /\ rows[k].title = todos[rows[k].id].title
                      /\ \A j \in DOMAIN rows :
                            j < k => todos[rows[j].id].created_at > todos[rows[k].id].created_at
                /\ \A id \in own \ shown : \A s \in shown :
                      todos[id].created_at < todos[s].created_at
                /\ n > 5 => /\ last'.response.count = n - 5
                            /\ last'.response.text =
                                 "Here are your tasks: {titles} ... and {additional_count} more"
                /\ (1 <= n /\ n <= 5)
                      => /\ last'.response.count = 0
                         /\ last'.response.text = "Here are your tasks: {titles}"
                /\ n = 0 => last'.response.text =
                               "You don't have any tasks yet. Try adding one!"]_vars

\* a user with seven todos has been shown five and told of 2 more
C11_Witness ==
    /\ last.op = "command"
    /\ last.message = MsgShow
    /\ Cardinality({id \in DOMAIN todos : todos[id].user_id = last.user}) = 7
    /\ Len(last.response.rows) = 5
    /\ last.response.count = 2

(***************************************************************************)
(* Chat commands whose store operations may fail: the commands of SpecExec *)
(* with one of the executor's store calls (the select, the commit or the   *)
(* refresh) raising, which the executor's except branch catches.           *)
(***************************************************************************)
chat_command_fault(message, user_id, fault) ==
    command_step("command", message, user_id,
                 process_natural_language_command(message, user_id, todos, fault))

\* a command for each executor that reaches the store
StoreCommands == {MsgChangeMilkToBread, MsgDone, MsgDeleteAny, MsgShow}

ChatCommandFault ==
    \E u \in Users, m \in StoreCommands, f \in CommandFaults : chat_command_fault(m, u, f)

NextExecFault ==
    \/ ChatCommand
    \/ CreateTodo
    \/ ChatCommandFault

SpecExecFault == InitExec /\ [][NextExecFault]_vars

\* the reply of the last command is the one an executor's except branch builds
StoreFailed(reply) == reply.response.phrase = StoreError

(***************************************************************************)
(* C12 as stated: every outcome of the list executor, the store failure    *)
(* while fetching included, carries processed = TRUE.                      *)
(***************************************************************************)
C12_ListAlwaysProcessed ==
    [][(last'.op = "command" /\ last'.message = MsgShow) => last'.processed]_vars

(***************************************************************************)
(* C12 amended: the list executor returns processed = TRUE for the         *)
(* non-empty and the empty list, and processed = FALSE with the reply      *)
(* "Sorry, I couldn't retrieve your tasks: {e}" when the fetch fails; the   *)
(* todos are left as they were in every outcome.                           *)
(***************************************************************************)
C12_ListProcessedUnlessFetchFails ==
    [][(last'.op = "command" /\ last'.message = MsgShow) =>
          /\ last'.intent = "list_todos"
          /\ todos' = todos
          /\ last'.processed <=> ~StoreFailed(last')
          /\ StoreFailed(last') =>
                last'.response.text = "Sorry, I couldn't retrieve your tasks: {e}"
          /\ ~StoreFailed(last') =>
                last'.response.text \in
                    {"You don't have any tasks yet. Try adding one!",
                     "Here are your tasks: {titles}",
                     "Here are your tasks: {titles} ... and {additional_count} more"}]_vars

C12_Witness ==
    /\ last.op = "command"
    /\ last.message = MsgShow
    /\ StoreFailed(last)
    /\ ~last.processed
    /\ OwnTodos(last.user) # {}

Changed ==
    {id \in DOMAIN todos \cup DOMAIN todos' :
        \/ id \notin DOMAIN todos
        \/ id \notin DOMAIN todos'
        \/ todos[id] # todos'[id]}

C14_StoreFailureLeavesStore ==
    [][(last'.op = "command" /\ StoreFailed(last')) =>
          /\ ~last'.processed
          /\ todos' = todos]_vars

(***************************************************************************)
(* C15: whatever the message and whichever store operation of the turn     *)
(* fails, send_chat_message either returns a reply (200) or is rejected    *)
(* for a session condition: session not found (404), not owned (403),      *)
(* inactive or without conversation (400).                                 *)
(***************************************************************************)
C15_OnlySessionRejections ==
    [][last'.op = "send" =>
          \/ last'.status = 200
          \/ /\ last'.status = 404
             /\ last'.detail = "Chat session not found"
          \/ /\ last'.status = 403
             /\ last'.detail \in {"Not authorized to access this chat session",
                                  "Not authorized"}
          \/ /\ last'.status = 400
             /\ last'.detail \in {"Chat session is inactive",
                                  "No conversation associated with this session"}]_vars

(***************************************************************************)
(* SpecTitle: the operations that write a title.  POST /todos/ and         *)
(* PUT /todos/{id} with titles of 0, 3, 8 and 201 characters, the chat     *)
(* create command, and the chat update command with a new title and with   *)
(* a new title that strips to the empty string.                            *)
(***************************************************************************)
LongTitle == [i \in 1..(MaxTitleLen + 1) |-> "x"]

TitleRequests == Titles \cup {<<>>, LongTitle}

TitleCommands == {MsgAddMilk, MsgChangeMilkToBread, MsgChangeMilkToBlank}

TitleCreate == \E u \in Users, t \in TitleRequests : create_todo(u, [title |-> t, description |-> NoDescription, completed |-> FALSE])

TitleUpdate == \E id \in TodoIds, u \in Users, t \in TitleRequests : update_todo(id, [title |-> t], u)

TitleCommand == \E u \in Users, m \in TitleCommands : chat_command(m, u)

NextTitle ==
    \/ TitleCreate
    \/ TitleUpdate
    \/ TitleCommand

SpecTitle == InitExec /\ [][NextTitle]_vars

(***************************************************************************)
(* C16: in every reachable state every stored Todo has a title of 1 to     *)
(* 200 characters.                                                         *)
(***************************************************************************)
C16_TitleLength ==
    \A id \in DOMAIN todos : Len(todos[id].title) \in 1..MaxTitleLen

\* the Message rows of a conversation in the order they were created
MessagesOf(conversation_id) ==
    SelectSeq(messages, LAMBDA m : m.conversation_id = conversation_id)

\* min(limit, max(0, n - offset))
PageSize(n, limit, offset) ==
    LET rest == IF n > offset THEN n - offset ELSE 0
    IN IF limit < rest THEN limit ELSE rest

(***************************************************************************)
(* C17: an accepted get_chat_history(limit, offset) on a session whose     *)
(* conversation holds N messages returns the messages at positions         *)
(* offset+1 .. offset+count of the conversation (counting from 1) in       *)
(* creation order, count being min(limit, max(0, N - offset)), reports     *)
(* totalCount = count and not N, whether the session is active or ended,   *)
(* and changes no state.                                                   *)
(***************************************************************************)
C17_HistoryPage ==
    [][(last'.op = "history" /\ last'.status = 200) =>
          \A p \in HistoryPages :
              get_chat_history(last'.sessionId, last'.user, p.limit, p.offset) =>
                  LET rows == MessagesOf(chat_sessions[last'.sessionId].conversationId)
                      count == PageSize(Len(rows), p.limit, p.offset)
                  IN /\ last'.totalCount = count
                     /\ Len(last'.page) = count
                     /\ \A k \in 1..count : last'.page[k] = rows[p.offset + k]
                     /\ UNCHANGED <<users, requests, todos, nextTodoId, now, chat_sessions,
                                    conversations, messages>>]_vars

\* the second message of an ended session's two, asked for with limit 1 and
\* offset 1
C17_Witness ==
    /\ last.op = "history"
    /\ last.status = 200
    /\ ~chat_sessions[last.sessionId].isActive
    /\ Len(MessagesOf(chat_sessions[last.sessionId].conversationId)) = 2
    /\ last.totalCount = 1
    /\ last.page = <<MessagesOf(chat_sessions[last.sessionId].conversationId)[2]>>

(***************************************************************************)
(* SpecConv: the chat endpoints of Spec together with the conversation     *)
(* endpoints, which write to and read from the same Conversation and       *)
(* Message tables.                                                         *)
(***************************************************************************)
\* the conversations created without a chat session
MaxStandalone == 1

\* RoleType
Roles == {"user", "assistant"}

\* ConversationRepository.get_conversation_by_id found a row
OwnsConversation(conversation_id, user_id) ==
    /\ conversation_id \in DOMAIN conversations
    /\ conversations[conversation_id].user_id = user_id

\* POST /conversations/
conversations_create_conversation(current_user) ==
    /\ Len(conversations) - Len(chat_sessions) < MaxStandalone
    /\ create_conversation(current_user)
    /\ last' = Response("create_conversation", current_user, 0, 0, <<>>, 200, "")
    /\ UNCHANGED <<users, requests, todos, nextTodoId, now, chat_sessions, messages>>

\* GET /conversations/{conversation_id}/messages
get_conversation_messages(conversation_id, current_user, limit, offset) ==
    /\ IF ~OwnsConversation(conversation_id, current_user)
       THEN last' = Response("get_conversation_messages", current_user, 0, 0, <<>>, 403,
                             "Not authorized to access this conversation")
       ELSE LET found == get_messages_by_conversation(conversation_id, current_user,
                                                      limit, offset)
            IN last' = [Response("get_conversation_messages", current_user, 0, 0, <<>>,
                                 200, "")
                        EXCEPT !.page = found, !.totalCount = Len(found)]
    /\ UNCHANGED <<users, requests, todos, nextTodoId, now, chat_sessions, conversations, messages>>

\* POST /conversations/{conversation_id}/messages; MessageCreate raises on a
\* role that is no RoleType
conversations_create_message(conversation_id, request, current_user) ==
    IF ~OwnsConversation(conversation_id, current_user)
    THEN /\ last' = Response("create_message", current_user, 0, 0, request.content, 403,
                             "Not authorized to access this conversation")
         /\ UNCHANGED <<users, requests, todos, nextTodoId, now, chat_sessions, conversations, messages>>
    ELSE IF request.role \notin Roles
    THEN /\ last' = Response("create_message", current_user, 0, 0, request.content, 500,
                             "Internal Server Error")
         /\ UNCHANGED <<users, requests, todos, nextTodoId, now, chat_sessions, conversations, messages>>
    ELSE /\ Len(messages) <= 2 * MaxTurns
         /\ messages' = create_message(messages, current_user, conversation_id,
                                       request.role, RawText(request.content))
         /\ last' = Response("create_message", current_user, 0, 0, request.content, 200, "")
         /\ UNCHANGED <<users, requests, todos, nextTodoId, now, chat_sessions, conversations>>

ConversationIds == 1..(MaxSessions + MaxStandalone)

MessageRequests == [role : {"assistant", "system"}, content : {MsgHello}]

ConvSend ==
    \E s \in SessionIds, u \in Users :
        send_chat_message(s, u, [message |-> MsgHello, userId |-> u], "none", TRUE)

ConvHistory == \E s \in SessionIds, u \in Users : get_chat_history(s, u, 50, 0)

CreateConversation == \E u \in Users : conversations_create_conversation(u)

GetMessages ==
    \E c \in ConversationIds, u \in Users : get_conversation_messages(c, u, 50, 0)

CreateMessage ==
    \E c \in ConversationIds, u \in Users, r \in MessageRequests :
        conversations_create_message(c, r, u)

NextConv ==
    \/ StartChat
    \/ ConvSend
    \/ ConvHistory
    \/ EndChat
    \/ CreateConversation
    \/ GetMessages
    \/ CreateMessage

SpecConv == Init /\ [][NextConv]_vars

\* the rows of a Message table that belong to a conversation, in order
MessagesIn(table, conversation_id) ==
    SelectSeq(table, LAMBDA m : m.conversation_id = conversation_id)

IsPrefix(a, b) == Len(a) <= Len(b) /\ SubSeq(b, 1, Len(a)) = a

(***************************************************************************)
(* C18: messages are immutable and append-only.  Whatever chat or          *)
(* conversation operation is performed, the message sequence of every      *)
(* conversation afterwards has the sequence before as a prefix, so that no *)
(* Message is modified, reordered or removed, and no conversation changes  *)
(* its owner; by induction the same holds between any earlier and any      *)
(* later state.                                                            *)
(***************************************************************************)
C18_MessagesAppendOnly ==
    [][/\ IsPrefix(conversations, conversations')
       /\ \A c \in DOMAIN conversations :
             IsPrefix(MessagesIn(messages, c), MessagesIn(messages', c))]_vars

\* a message appended through the conversation endpoint behind a stored one
\* of the same conversation
C18_Witness ==
    /\ last.op = "create_message"
    /\ last.status = 200
    /\ Len(messages) >= 2
    /\ messages[Len(messages)].conversation_id = messages[1].conversation_id
    /\ messages[Len(messages)].role = "assistant"
    /\ messages[1].role = "user"

\* the answer in reply is to a chat operation on an existing session by an
\* identity that is not its owner: the authenticated user, or the userId in
\* the body of a message
NonOwnerCall(reply) ==
    /\ reply.op \in {"send", "history", "end"}
    /\ reply.sessionId \in DOMAIN chat_sessions
    /\ \/ reply.user # chat_sessions[reply.sessionId].userId
       \/ reply.op = "send" /\ reply.userId # chat_sessions[reply.sessionId].userId

\* nothing is returned and nothing is written
WithoutEffect ==
    /\ last'.page = <<>>
    /\ last'.response = NoText
    /\ UNCHANGED <<users, requests, todos, nextTodoId, now, chat_sessions, conversations, messages>>

(***************************************************************************)
(* C19 as stated: send_chat_message, get_chat_history and end_chat_session *)
(* called by an identity that is not the session's owner are rejected with *)
(* 403 and have no effect.                                                 *)
(***************************************************************************)
C19_NonOwnerForbidden ==
    [][NonOwnerCall(last') => (last'.status = 403 /\ WithoutEffect)]_vars

(***************************************************************************)
(* C19 amended: such a call is rejected and has no effect; it returns no   *)
(* messages and leaves isActive, the messages and the todos as they were,  *)
(* so a non-owner cannot end another user's session.  The rejection is 403 *)
(* except for send_chat_message on an ended session by a caller whose body *)
(* names the owner, which is answered 400 "Chat session is inactive".      *)
(***************************************************************************)
C19_NonOwnerRejected ==
    [][NonOwnerCall(last') =>
          /\ WithoutEffect
          /\ \/ last'.status = 403
             \/ /\ last'.status = 400
                /\ last'.detail = "Chat session is inactive"
                /\ last'.op = "send"
                /\ last'.userId = chat_sessions[last'.sessionId].userId
                /\ ~chat_sessions[last'.sessionId].isActive
          /\ (last'.op # "send" \/ chat_sessions[last'.sessionId].isActive
                \/ last'.userId # chat_sessions[last'.sessionId].userId)
                => last'.status = 403]_vars

\* a non-owner's attempt to end an active session that holds messages
C19_Witness ==
    /\ last.op = "end"
    /\ last.status = 403
    /\ NonOwnerCall(last)
    /\ chat_sessions[last.sessionId].isActive
    /\ MessagesOf(chat_sessions[last.sessionId].conversationId) # <<>>

(***************************************************************************)
(* SpecLife: the REST endpoints on todos created with and without a        *)
(* description, together with the chat commands that rename, complete and  *)
(* delete todos.                                                           *)
(***************************************************************************)
Descriptions == {NoDescription, TitleTea}

LifeTodos == [title : {TitleBuyMilk}, description : Descriptions, completed : {FALSE}]

LifeUpdates == {[title |-> TitleTea], [description |-> TitleBuyMilk]}

LifeCommands == {MsgChangeMilkToBread, MsgDeleteAny}

LifeCreate == \E u \in Users, t \in LifeTodos : create_todo(u, t)

LifeUpdate == \E id \in TodoIds, u \in Users, d \in LifeUpdates : update_todo(id, d, u)

LifeCommand == \E u \in Users, m \in LifeCommands : chat_command(m, u)

NextLife ==
    \/ LifeCreate
    \/ GetTodo
    \/ GetTodos
    \/ LifeUpdate
    \/ DeleteTodo
    \/ LifeCommand

SpecLife == InitExec /\ [][NextLife]_vars

\* the todos other than id are the same before and after the step
OthersKept(id) ==
    /\ DOMAIN todos' \ {id} = DOMAIN todos \ {id}
    /\ \A other \in DOMAIN todos \ {id} : todos'[other] = todos[other]

(***************************************************************************)
(* C20: the REST todo lifecycle.  POST /todos answers 201 and stores the   *)
(* todo under a fresh id with the title and description of the request;    *)
(* GET /todos/{id} by the owner answers 200 with the id, title and         *)
(* description that are stored, and neither it nor GET /todos nor a POST   *)
(* changes a stored todo, so the answer is the same on every call until    *)
(* the todo is updated or deleted; DELETE /todos/{id} by the owner answers *)
(* 204 and removes the todo and nothing else; GET, PUT and DELETE on an id *)
(* that holds no todo answer 404, and GET /todos lists exactly the         *)
(* caller's stored todos, hence not a deleted one.                         *)
(***************************************************************************)
C20_RestLifecycle ==
    [][/\ last'.op = "create_todo" =>
             \A t \in LifeTodos :
                 create_todo(last'.user, t) =>
                     /\ last'.status = 201
                     /\ last'.todoId \notin DOMAIN todos
                     /\ last'.todoId \in DOMAIN todos'
                     /\ todos'[last'.todoId].title = t.title
                     /\ todos'[last'.todoId].description = t.description
                     /\ todos'[last'.todoId].user_id = last'.user
                     /\ last'.rows = <<Row(todos', last'.todoId)>>
                     /\ OthersKept(last'.todoId)
       /\ (last'.op = "get_todo" /\ get_todo(last'.todoId, last'.user)) =>
             /\ todos' = todos
             /\ last'.todoId \notin DOMAIN todos => last'.status = 404
             /\ (last'.todoId \in DOMAIN todos
                   /\ todos[last'.todoId].user_id = last'.user) =>
                   /\ last'.status = 200
                   /\ Len(last'.rows) = 1
                   /\ last'.rows[1].id = last'.todoId
                   /\ last'.rows[1].title = todos[last'.todoId].title
                   /\ last'.rows[1].description = todos[last'.todoId].description
       /\ (last'.op = "delete_todo" /\ delete_todo(last'.todoId, last'.user)) =>
             /\ OthersKept(last'.todoId)
             /\ last'.todoId \notin DOMAIN todos => last'.status = 404
             /\ (last'.todoId \in DOMAIN todos
                   /\ todos[last'.todoId].user_id = last'.user) =>
                   /\ last'.status = 204
                   /\ last'.todoId \notin DOMAIN todos'
       /\ (last'.op = "update_todo" /\ last'.todoId \notin DOMAIN todos) =>
             \A d \in LifeUpdates :
                 update_todo(last'.todoId, d, last'.user) =>
                     /\ last'.status = 404
                     /\ todos' = todos
       /\ (last'.op = "get_todos" /\ get_todos(last'.user)) =>
             /\ todos' = todos
             /\ {last'.rows[k].id : k \in DOMAIN last'.rows}
                    = {id \in DOMAIN todos : todos[id].user_id = last'.user}
             /\ \A k \in DOMAIN last'.rows :
                   last'.rows[k] = Row(todos, last'.rows[k].id)]_vars

\* GET /todos/{id} answered 404 for the id of a deleted todo while a todo
\* created with a description is stored
C20_Witness ==
    /\ last.op = "get_todo"
    /\ last.status = 404
    /\ last.todoId < nextTodoId
    /\ last.todoId \notin DOMAIN todos
    /\ \E id \in DOMAIN todos : todos[id].description = TitleTea

(***************************************************************************)
(* SpecPut: PUT /todos/{id} with bodies that set one or two fields, on     *)
(* todos that user 1 created with a description, a priority and a          *)
(* category.                                                               *)
(***************************************************************************)
PutTodos ==
    {[title |-> TitleBuyMilk, description |-> TitleTea, completed |-> FALSE,
      priority |-> "low", category |-> MsgMilk],
     [title |-> TitleBuyMilk, description |-> TitleTea, completed |-> FALSE,
      priority |-> "high"]}

PutUpdates ==
    {[title |-> TitleTea], [completed |-> TRUE],
     [category |-> TitleTea, due_date |-> 5]}

PutCreate == \E t \in PutTodos : create_todo(1, t)

PutUpdate == \E id \in TodoIds, u \in Users, d \in PutUpdates : update_todo(id, d, u)

NextPut ==
    \/ PutCreate
    \/ PutUpdate
    \/ GetTodo

SpecPut == InitExec /\ [][NextPut]_vars

(***************************************************************************)
(* C21: an accepted PUT /todos/{id} by the owner sets exactly the fields   *)
(* of the body to the values of the body and sets updated_at to the time   *)
(* of the request; every other field of the todo (among them description,  *)
(* completed, priority, due date, category, owner and created_at), its id  *)
(* and all other todos are as before.                                      *)
(***************************************************************************)
C21_PutSetsSuppliedFields ==
    [][(last'.op = "update_todo" /\ last'.status = 200) =>
          \A d \in PutUpdates :
              update_todo(last'.todoId, d, last'.user) =>
                  /\ todos[last'.todoId].user_id = last'.user
                  /\ OthersKept(last'.todoId)
                  /\ last'.todoId \in DOMAIN todos'
                  /\ DOMAIN todos'[last'.todoId] = DOMAIN todos[last'.todoId]
                  /\ \A field \in DOMAIN d : todos'[last'.todoId][field] = d[field]
                  /\ todos'[last'.todoId].updated_at = now
                  /\ \A field \in DOMAIN todos[last'.todoId] \ (DOMAIN d \cup {"updated_at"}) :
                        todos'[last'.todoId][field] = todos[last'.todoId][field]
                  /\ last'.rows = <<Row(todos', last'.todoId)>>]_vars

\* a PUT of the title alone on a todo with a description, a category and
\* the priority low, stored after its creation time
C21_Witness ==
    /\ last.op = "update_todo"
    /\ last.status = 200
    /\ todos[last.todoId].title = TitleTea
    /\ todos[last.todoId].description = TitleTea
    /\ todos[last.todoId].category = MsgMilk
    /\ todos[last.todoId].priority = "low"
    /\ ~todos[last.todoId].completed
    /\ todos[last.todoId].updated_at > todos[last.todoId].created_at

(***************************************************************************)
(* SpecAuth: POST /auth/register and POST /auth/login from an empty User   *)
(* table.                                                                  *)
(***************************************************************************)
\* UserCreate: username 3..50, email 5..100, password at least 8 characters
ValidUserCreate(user) ==
    /\ Len(user.username) \in 3..50
    /\ Len(user.email) \in 5..100
    /\ Len(user.password) >= 8

\* POST /auth/register
register(user) ==
    LET answer(status, detail) ==
            [Response("register", 0, 0, 0, <<>>, status, detail) EXCEPT !.body = user]
    IN IF ~ValidUserCreate(user)
       THEN /\ last' = answer(422, "Unprocessable Entity")
            /\ UNCHANGED <<users, requests, todos, nextTodoId, now, chat_sessions, conversations, messages>>
       ELSE IF \E id \in DOMAIN users : users[id].username = user.username
       THEN /\ last' = answer(400, "Username already registered")
            /\ UNCHANGED <<users, requests, todos, nextTodoId, now, chat_sessions, conversations, messages>>
       ELSE IF \E id \in DOMAIN users : users[id].email = user.email
       THEN /\ last' = answer(400, "Email already registered")
            /\ UNCHANGED <<users, requests, todos, nextTodoId, now, chat_sessions, conversations, messages>>
       ELSE /\ users' = Append(users, UserRow(user.username, user.email, user.password))
            /\ last' = answer(201, "")
            /\ UNCHANGED <<requests, todos, nextTodoId, now, chat_sessions, conversations, messages>>

\* POST /auth/login on a build of bcrypt
login(user_credentials, build) ==
    LET found == {id \in DOMAIN users : users[id].username = user_credentials.username}
        user == CHOOSE id \in found : TRUE
        answer(status, detail) ==
            [Response("login", 0, 0, 0, <<>>, status, detail)
             EXCEPT !.body = user_credentials]
    IN /\ IF found = {}
          THEN last' = answer(401, "Incorrect username or password")
          ELSE IF build = "raises" /\ Len(user_credentials.password) > MaxBcryptBytes
          THEN last' = answer(500, "Internal Server Error")
          ELSE IF ~verify_password(user_credentials.password, users[user].hashed_password)
          THEN last' = answer(401, "Incorrect username or password")
          ELSE last' = [answer(200, "")
                        EXCEPT !.access_token = [sub |-> users[user].username,
                                                 token_type |-> "bearer"]]
       /\ UNCHANGED <<users, requests, todos, nextTodoId, now, chat_sessions, conversations, messages>>

\* 72 characters
LongPrefix == [i \in 1..MaxBcryptBytes |-> "x"]

Usernames == {<<"a","n","n">>, <<"b","o","b">>}

Emails == {<<"a","@","x",".","y">>, <<"b","@","x",".","y">>}

Passwords ==
    {Password, <<"s","h","o","r","t">>, LongPrefix \o <<"a">>, LongPrefix \o <<"b">>}

InitAuth ==
    /\ users = <<>>
    /\ requests = Idle
    /\ todos = <<>>
    /\ nextTodoId = 1
    /\ now = 1
    /\ chat_sessions = <<>>
    /\ conversations = <<>>
    /\ messages = <<>>
    /\ last = Response("none", 0, 0, 0, <<>>, 0, "")

Register ==
    \E n \in Usernames, e \in Emails, p \in Passwords :
        register([username |-> n, email |-> e, password |-> p])

Login ==
    \E n \in Usernames, p \in Passwords, build \in BcryptBuilds :
        login([username |-> n, password |-> p], build)

NextAuth ==
    \/ Register
    \/ Login

SpecAuth == InitAuth /\ [][NextAuth]_vars

\* the credentials are those of a registered user
RegisteredWith(credentials) ==
    \E id \in DOMAIN users :
        /\ users[id].username = credentials.username
        /\ users[id].registered_password = credentials.password

(***************************************************************************)
(* C22: login answers 200 with a bearer token exactly when the username is *)
(* registered and the password is the one given at registration, and 401   *)
(* without a token otherwise, changing no state; a registration with a     *)
(* username or an email that is already registered is answered 400 and     *)
(* leaves the users as they are, so that no two users share a username or  *)
(* an email.                                                               *)
(***************************************************************************)
C22_LoginAndRegistration ==
    [][/\ last'.op = "login" =>
             /\ users' = users
             /\ IF RegisteredWith(last'.body)
                THEN /\ last'.status = 200
                     /\ last'.access_token.token_type = "bearer"
                     /\ last'.access_token.sub = last'.body.username
                ELSE /\ last'.status = 401
                     /\ last'.access_token = <<>>
       /\ (last'.op = "register" /\ last'.status # 422) =>
             IF \E id \in DOMAIN users :
                    \/ users[id].username = last'.body.username
                    \/ users[id].email = last'.body.email
             THEN last'.status = 400 /\ users' = users
             ELSE last'.status = 201
       /\ \A a, b \in DOMAIN users' :
             (a # b) => /\ users'[a].username # users'[b].username
                        /\ users'[a].email # users'[b].email]_vars

(***************************************************************************)
(* SpecMatch: update and delete commands on a Todo table of three todos,   *)
(* two of user 1 and one of either user.                                   *)
(***************************************************************************)
Title100A == <<"1","0","0","%"," ","a">>
Title100B == <<"1","0","0","%"," ","b">>
Title1000 == <<"1","0","0","0">>

MatchTitles == {Title100A, Title100B, Title1000, TitleBuyMilk}

\* the tables of three todos with different titles, in their order of creation
MatchStores ==
    {Inserted(Inserted(Inserted(<<>>, 1, t[1], FALSE, 1, 1), 2, t[2], FALSE, 1, 2),
              3, t[3], FALSE, u, 3) :
        t \in {q \in [1..3 -> MatchTitles] : Cardinality({q[1], q[2], q[3]}) = 3},
        u \in Users}

InitMatch == \E store \in MatchStores : InitWith(store)

MatchCommands ==
    {MsgDelete100, MsgUpdate100, MsgDeleteMilk, MsgUpdateMilk,
     MsgFinish100, MsgFinishMilk, MsgDone}

MatchCommand == \E u \in Users, m \in MatchCommands : chat_command(m, u)

NextMatch == MatchCommand

SpecMatch == InitMatch /\ [][NextMatch]_vars

\* the target phrase and the verb of the commands of SpecMatch
MatchTargets ==
    [message \in {MsgDelete100, MsgUpdate100, MsgDeleteMilk, MsgUpdateMilk} |->
        [phrase |-> IF message \in {MsgDelete100, MsgUpdate100}
                    THEN <<"1","0","0","%">> ELSE MsgMilk,
         verb |-> IF message \in {MsgDelete100, MsgDeleteMilk}
                  THEN "delete" ELSE "update"]]

\* what the command with verb does to todo id
ActsOn(verb, id) ==
    IF verb = "delete"
    THEN todos' = [i \in DOMAIN todos \ {id} |-> todos[i]]
    ELSE todos' = [todos EXCEPT ![id].completed = ~todos[id].completed]

(***************************************************************************)
(* C23: when several todos of the caller contain the target phrase, an     *)
(* update or delete command acts on exactly one of them, the one created   *)
(* last, and leaves every other todo as it is; the reply is the ordinary   *)
(* processed reply. A todo from the fallback scan is taken only when the   *)
(* store's query has returned none.                                        *)
(***************************************************************************)
C23_NewestContainingTodo ==
    [][(last'.op = "command" /\ last'.message \in DOMAIN MatchTargets)
          => LET target == MatchTargets[last'.message]
                 containing == Containing(last'.user, target.phrase)
                 matches == Matching(last'.user, target.phrase)
             IN /\ Cardinality(containing) >= 2
                      => /\ last'.processed
                         /\ \E id \in containing :
                               /\ \A j \in containing :
                                     todos[j].created_at <= todos[id].created_at
                               /\ ActsOn(target.verb, id)
                /\ (matches # {} /\ todos' # todos)
                      => \E id \in matches : ActsOn(target.verb, id)]_vars

\* the update commands of SpecExec: whether the message has a "to <new title>" clause
UpdateClause == [message \in {MsgUpdateMilk, MsgChangeMilkToBread} |->
                    message = MsgChangeMilkToBread]

(***************************************************************************)
(* C24: a processed update command without a "to <new title>" clause flips *)
(* the completed flag of one todo of the caller and changes nothing else,  *)
(* its title included; one with the clause changes the title of one todo   *)
(* of the caller and nothing else. So when two clause-less update commands *)
(* in a row act on the same todo, its completed flag is again what it was  *)
(* before the first.                                                       *)
(***************************************************************************)
C24_ToggleOrRename ==
    [][(/\ last'.op = "command"
        /\ last'.message \in DOMAIN UpdateClause
        /\ last'.processed)
          => /\ last'.intent = "update_todo"
             /\ \E id \in OwnTodos(last'.user) :
                   /\ last'.response.rows = <<Row(todos', id)>>
                   /\ IF UpdateClause[last'.message]
                      THEN todos' = [todos EXCEPT ![id].title = todos'[id].title]
                      ELSE todos' = [todos EXCEPT ![id].completed = ~todos[id].completed]
                   /\ (/\ ~UpdateClause[last'.message]
                       /\ last.op = "command"
                       /\ last.message = last'.message
                       /\ last.user = last'.user
                       /\ last.processed
                       /\ last.response.rows[1].id = id)
                         => todos'[id].completed = ~last.response.rows[1].completed]_vars

\* "update milk" has acted on a completed todo, which was created incomplete:
\* the todo is incomplete again and has kept its title
C24_Witness ==
    /\ last.op = "command"
    /\ last.message = MsgUpdateMilk
    /\ last.processed
    /\ last.response.rows[1].id = 1
    /\ ~todos[1].completed
    /\ todos[1].title = TitleBuyMilk
    /\ DOMAIN todos = {1}

\* the complete commands of SpecMatch and the phrase extracted from each
\* (none from "done")
CompletePhrases ==
    [message \in {MsgFinish100, MsgFinishMilk, MsgDone} |->
        IF message = MsgFinish100 THEN <<"1","0","0","%">>
        ELSE IF message = MsgFinishMilk THEN MsgMilk
        ELSE <<>>]

(***************************************************************************)
(* C25: a processed complete command changes exactly one todo of the       *)
(* caller from incomplete to completed and nothing else: the most recently *)
(* created incomplete todo whose title contains the extracted phrase, or   *)
(* the most recently created incomplete todo when no phrase is extracted.  *)
(***************************************************************************)
C25_CompletesNewestContaining ==
    [][(/\ last'.op = "command"
        /\ last'.message \in DOMAIN CompletePhrases
        /\ last'.processed)
          => LET phrase == CompletePhrases[last'.message]
                 candidates == {id \in Containing(last'.user, phrase) : ~todos[id].completed}
             IN \E id \in candidates :
                   /\ \A j \in candidates : todos[j].created_at <= todos[id].created_at
                   /\ todos' = [todos EXCEPT ![id].completed = TRUE]]_vars

(***************************************************************************)
(* C26: sessions and conversations only accumulate.  A start_chat_session  *)
(* adds exactly one session and exactly one Conversation, owned by the     *)
(* caller and bound to each other; no other operation adds a session, and  *)
(* no operation removes a session or a Conversation or changes a session's *)
(* userId or conversationId or a Conversation's owner.  So different       *)
(* sessions are bound to different conversations, and history and end      *)
(* never answer 404 for a session that has been started, ended or not.     *)
(***************************************************************************)
C26_SessionsAccumulate ==
    [][/\ \A s \in DOMAIN chat_sessions :
             /\ s \in DOMAIN chat_sessions'
             /\ chat_sessions'[s].userId = chat_sessions[s].userId
             /\ chat_sessions'[s].conversationId = chat_sessions[s].conversationId
       /\ \A c \in DOMAIN conversations :
             /\ c \in DOMAIN conversations'
             /\ conversations'[c] = conversations[c]
       /\ IF last'.op = "start"
          THEN /\ Len(chat_sessions') = Len(chat_sessions) + 1
               /\ Len(conversations') = Len(conversations) + 1
               /\ last'.sessionId = Len(chat_sessions')
               /\ chat_sessions'[last'.sessionId] =
                     [userId |-> last'.user, conversationId |-> Len(conversations'),
                      isActive |-> TRUE]
               /\ conversations'[Len(conversations')].user_id = last'.user
          ELSE DOMAIN chat_sessions' = DOMAIN chat_sessions
       /\ \A s, t \in DOMAIN chat_sessions' :
             (s # t) => chat_sessions'[s].conversationId # chat_sessions'[t].conversationId
       /\ (last'.op \in {"history", "end"} /\ last'.sessionId \in DOMAIN chat_sessions)
             => last'.status # 404]_vars

\* two sessions have been started, one of them after a conversation created
\* over POST /conversations/, and the history of an ended one has been read
C26_Witness ==
    /\ Len(chat_sessions) = 2
    /\ Len(conversations) = 3
    /\ chat_sessions[2].conversationId = 3
    /\ last.op = "history"
    /\ last.status = 200
    /\ ~chat_sessions[last.sessionId].isActive

(***************************************************************************)
(* SpecRace: two update requests of user 1 while the table holds the todo  *)
(* "Buy Milk", each on its own thread with its own database session, in    *)
(* two steps: the SELECT that loads the row, and the assignments with the  *)
(* commit and the refresh. The session sends an UPDATE of the attributes   *)
(* whose assigned value differs from the loaded one.                       *)
(***************************************************************************)
RaceRequests ==
    {[kind |-> "command", message |-> MsgUpdateMilk],
     [kind |-> "command", message |-> MsgChangeMilkToBread],
     [kind |-> "put", body |-> [completed |-> TRUE]],
     [kind |-> "put", body |-> [title |-> TitleTea]]}

\* the todos process_update_todo_command selects from: the rows of its
\* query, or those of the scan when the query has none
UpdateCandidates(message, user_id, store) ==
    LET task_title == Strip(TheGroup(Scan(message).update_target))
        found == TitleILike(store, user_id, task_title)
    IN IF found # <<>> THEN found
       ELSE PartialMatches(store, AllTodos(store, user_id), task_title)

\* the request of thread t has loaded the row of todo_id
Loaded(t, request, user_id, todo_id) ==
    /\ requests' = [requests EXCEPT ![t] =
           [pc |-> "loaded", request |-> request, user |-> user_id,
            todo |-> todo_id, row |-> todos[todo_id]]]
    /\ UNCHANGED <<users, todos, nextTodoId, now, chat_sessions, conversations, messages, last>>

\* the first step of an update command on thread t; a command that finds no
\* todo has no second step
update_command_select(t, request, user_id) ==
    IF Scan(request.message).update_target = {}
          \/ UpdateCandidates(request.message, user_id, todos) = <<>>
    THEN chat_command(request.message, user_id)
    ELSE Loaded(t, request, user_id, UpdateCandidates(request.message, user_id, todos)[1])

\* the first step of PUT /todos/{todo_id} on thread t; a rejected request has
\* no second step
update_todo_get(t, request, todo_id, current_user) ==
    IF \/ "title" \in DOMAIN request.body /\ ~ValidTitle(request.body.title)
       \/ TodoRejection(todo_id, current_user).status # 200
    THEN update_todo(todo_id, request.body, current_user)
    ELSE Loaded(t, request, current_user, todo_id)

\* the attributes the second step assigns to the loaded row
Assigned(request, row) ==
    IF request.kind = "put"
    THEN [field \in DOMAIN request.body \cup {"updated_at"} |->
             IF field = "updated_at" THEN now ELSE request.body[field]]
    ELSE IF Scan(request.message).new_title # {}
    THEN [title |-> Strip(TheGroup(Scan(request.message).new_title))]
    ELSE [completed |-> ~row.completed]

\* session.commit(): the UPDATE sets the attributes that have changed on the
\* loaded row and leaves the other columns as they are in the table
Flushed(store, todo_id, row, assigned) ==
    [store EXCEPT ![todo_id] =
        [field \in DOMAIN store[todo_id] |->
            IF field \in DOMAIN assigned /\ assigned[field] # row[field]
            THEN assigned[field]
            ELSE store[todo_id][field]]]

\* the second step of the request of thread t. The thread keeps what it
\* assigned, whether the other thread had loaded its row and not yet
\* committed, and its place in the order of the commits
update_commit(t) ==
    /\ requests[t].pc = "loaded"
    /\ requests[t].todo \in DOMAIN todos
    /\ LET r == requests[t]
           assigned == Assigned(r.request, r.row)
       IN /\ todos' = Flushed(todos, r.todo, r.row, assigned)
          /\ last' = IF r.request.kind = "put"
                     THEN [Response("update_todo", r.user, 0, r.todo, <<>>, 200, "")
                           EXCEPT !.rows = Rows(todos', <<r.todo>>)]
                     ELSE [Response("command", r.user, 0, 0, r.request.message, 200, "")
                           EXCEPT !.response =
                                      Text(IF todos'[r.todo].completed
                                           THEN "I've updated the task '{todo.title}' (completed)."
                                           ELSE "I've updated the task '{todo.title}' (marked incomplete).",
                                           <<>>, Rows(todos', <<r.todo>>), 0),
                                  !.intent = "update_todo",
                                  !.processed = TRUE]
          /\ requests' = [requests EXCEPT ![t] =
                 [pc |-> "done", request |-> r.request, todo |-> r.todo,
                  assigned |-> assigned,
                  success |-> TRUE,
                  concurrent |-> \E o \in Threads \ {t} :
                                     /\ requests[o].pc = "loaded"
                                     /\ requests[o].todo = r.todo,
                  place |-> 1 + Cardinality({o \in Threads : requests[o].pc = "done"})]]
    /\ UNCHANGED <<users, nextTodoId, now, chat_sessions, conversations, messages>>

InitRace ==
    \E completed \in BOOLEAN : InitWith(Inserted(<<>>, 1, TitleBuyMilk, completed, 1, 1))

RaceSelect ==
    \E t \in Threads, r \in {q \in RaceRequests : q.kind = "command"} :
        /\ requests[t].pc = "idle"
        /\ update_command_select(t, r, 1)

RaceGet ==
    \E t \in Threads, r \in {q \in RaceRequests : q.kind = "put"} :
        /\ requests[t].pc = "idle"
        /\ update_todo_get(t, r, 1, 1)

RaceCommit == \E t \in Threads : update_commit(t)

NextRace ==
    \/ RaceSelect
    \/ RaceGet
    \/ RaceCommit

SpecRace == InitRace /\ [][NextRace]_vars

(***************************************************************************)
(* C27: when two update requests of a user on one todo interleave, so that *)
(* both have read the todo before either commits, both report success and  *)
(* every field one of them has written holds the value written by the last *)
(* of them to commit among those that wrote it.                            *)
(***************************************************************************)
C27_LastWriteWins ==
    \A first, second \in Threads :
        (/\ requests[first].pc = "done"
         /\ requests[second].pc = "done"
         /\ requests[first].place = 1
         /\ requests[second].place = 2
         /\ requests[first].concurrent
         /\ requests[first].todo = requests[second].todo)
           => LET row == todos[requests[first].todo]
                  early == requests[first].assigned
                  late == requests[second].assigned
              IN /\ requests[first].success
                 /\ requests[second].success
                 /\ \A field \in DOMAIN late : row[field] = late[field]
                 /\ \A field \in DOMAIN early \ DOMAIN late : row[field] = early[field]

(***************************************************************************)
(* SpecSend: send_chat_message step by step.  The endpoints are plain      *)
(* functions, which the server runs on worker threads, so that between two *)
(* statements of a send another request can run: the checks, the user's    *)
(* Message, the command and the assistant's Message are steps of their     *)
(* own. Each thread runs one send.                                         *)
(***************************************************************************)
\* the checks of send_chat_message on thread t; a rejected request ends here
send_check(t, sessionId, current_user, request) ==
    IF SendRejection(sessionId, current_user, request).status # 200
    THEN chat_rejected(sessionId, current_user, request,
                       SendRejection(sessionId, current_user, request))
    ELSE /\ requests' = [requests EXCEPT ![t] =
                [pc |-> "checked", sessionId |-> sessionId, user |-> current_user,
                 request |-> request,
                 conversation_id |-> chat_sessions[sessionId].conversationId]]
         /\ UNCHANGED <<users, todos, nextTodoId, now, chat_sessions, conversations, messages, last>>

\* chat_service.create_message(..., role="user", content=request.message)
send_save_user_message(t) ==
    /\ requests[t].pc = "checked"
    /\ messages' = create_message(messages, requests[t].user, requests[t].conversation_id,
                                  "user", RawText(requests[t].request.message))
    /\ requests' = [requests EXCEPT ![t].pc = "saved"]
    /\ UNCHANGED <<users, todos, nextTodoId, now, chat_sessions, conversations, last>>

\* ai_response = process_natural_language_command(request.message, user.id, session)
send_process(t) ==
    /\ requests[t].pc = "saved"
    /\ LET ai_response == process_natural_language_command(requests[t].request.message,
                                                           requests[t].user, todos, "none")
       IN /\ todos' = ai_response.store
          /\ requests' = [requests EXCEPT ![t] =
                 [pc |-> "processed", sessionId |-> requests[t].sessionId,
                  user |-> requests[t].user, request |-> requests[t].request,
                  conversation_id |-> requests[t].conversation_id,
                  response |-> ai_response.response, intent |-> ai_response.intent,
                  processed |-> ai_response.processed]]
    /\ UNCHANGED <<users, nextTodoId, now, chat_sessions, conversations, messages, last>>

\* chat_service.create_message(..., role="assistant", ...) and the response
send_save_reply(t) ==
    /\ requests[t].pc = "processed"
    /\ messages' = create_message(messages, requests[t].user, requests[t].conversation_id,
                                  "assistant", requests[t].response)
    /\ last' = [Response("send", requests[t].user, requests[t].sessionId, 0,
                         requests[t].request.message, 200, "")
                EXCEPT !.userId = requests[t].request.userId,
                       !.response = requests[t].response,
                       !.intent = requests[t].intent,
                       !.processed = requests[t].processed]
    /\ requests' = [requests EXCEPT ![t] =
           [pc |-> "done", sessionId |-> requests[t].sessionId]]
    /\ UNCHANGED <<users, todos, nextTodoId, now, chat_sessions, conversations>>

SendMessages == {MsgDone, MsgHello}

SendCheck ==
    \E t \in Threads, s \in SessionIds, u \in Users, m \in SendMessages :
        /\ requests[t].pc = "idle"
        /\ send_check(t, s, u, [message |-> m, userId |-> u])

SendSaveUserMessage == \E t \in Threads : send_save_user_message(t)

SendProcess == \E t \in Threads : send_process(t)

SendSaveReply == \E t \in Threads : send_save_reply(t)

NextSend ==
    \/ StartChat
    \/ EndChat
    \/ SendCheck
    \/ SendSaveUserMessage
    \/ SendProcess
    \/ SendSaveReply

SpecSend == Init /\ [][NextSend]_vars

(***************************************************************************)
(* C28: while a session is ended, no Message is appended to its            *)
(* conversation and no send to it executes its command, whatever the       *)
(* interleaving of the send with end_chat_session: a send never works on a *)
(* session whose end_chat_session has returned.                            *)
(***************************************************************************)
C28_NoTurnAfterEnd ==
    [][\A s \in DOMAIN chat_sessions :
          ~chat_sessions[s].isActive
             => /\ MessagesIn(messages', chat_sessions[s].conversationId)
                      = MessagesIn(messages, chat_sessions[s].conversationId)
                /\ \A t \in Threads :
                      (requests[t].pc = "saved" /\ requests[t].sessionId = s)
                         => requests'[t].pc = "saved"]_vars

(***************************************************************************)
(* C29: with any number of sends running at once on a session, the         *)
(* messages of its conversation alternate user, assistant, beginning with  *)
(* user: every user message is directly followed by its reply, the last    *)
(* one at most still waiting for it.                                       *)
(***************************************************************************)
C29_TurnsAlternate ==
    \A c \in DOMAIN conversations :
        LET rows == MessagesIn(messages, c)
        IN \A i \in DOMAIN rows :
              rows[i].role = IF i % 2 = 1 THEN "user" ELSE "assistant"

(***************************************************************************)
(* C30: the conversation of a chat session receives Messages only while    *)
(* the session is active: once the session is ended, no request, the       *)
(* owner's POST /conversations/{conversation_id}/messages included, adds a *)
(* Message to its conversation.                                            *)
(***************************************************************************)
C30_EndedConversationClosed ==
    [][\A s \in DOMAIN chat_sessions :
          ~chat_sessions[s].isActive
             => Len(MessagesIn(messages', chat_sessions[s].conversationId))
                   = Len(MessagesIn(messages, chat_sessions[s].conversationId))]_vars

====
